---- MODULE Spec2Model ----
(* Solomon church bot: the Domain Store (src/db.py), the Role Guard         *)
(* (src/roles.py), the conversation flows and the approval workflow          *)
(* (src/handlers/*.py), as a state machine with one action per handler.      *)
EXTENDS Integers, Sequences, FiniteSets, TLC

\* ------------------------------------------------------------------ values

\* Python None / SQL NULL, and a key that is absent from context.user_data.
None == "None"
Missing == "Missing"

\* src/models.py enums
USER == "user"
ADMIN == "admin"
SUPER_ADMIN == "super_admin"
UserRole == {USER, ADMIN, SUPER_ADMIN}

EV_PENDING == "pending"
EV_ACTIVE == "active"
EV_ARCHIVED == "archived"

RQ_PENDING == "pending"
RQ_APPROVED == "approved"
RQ_REJECTED == "rejected"

\* ConversationHandler.END: no conversation instance for the key
END == "END"

\* ------------------------------------------------------------------ bounds

\* Telegram accounts that talk to the bot (telegram_id); each has one private chat.
Actors == {1, 2, 3}
\* rows the events / admin_requests / info tables may grow to
MaxEvents == 2
MaxRequests == 1
MaxInfo == 1

\* The Telegram profile of an account: its @handle (or none) and display name.
TgUsername(a) == CASE a = 1 -> "sa" [] a = 2 -> "bob" [] OTHER -> None
TgFullName(a) == CASE a = 1 -> "Sam" [] a = 2 -> "Bob" [] OTHER -> "Cy"
\* str(tg.id)
IdStr(a) == CASE a = 1 -> "1" [] a = 2 -> "2" [] OTHER -> "3"
\* handles a super-admin may type after /set_role
Handles == {"sa", "bob"}
\* outcomes of a fan-out: the accounts a bot.send_message to which succeeds
Deliveries == {Actors, {}}

\* ------------------------------------------------------------------ state

VARIABLES
    users,          \* table users: telegram_id -> row
    events,         \* table events: sequence of rows, id = index (SERIAL)
    registrations,  \* table event_registrations: set of rows
    info,           \* table info: sequence of rows, id = index; present = not deleted
    requests,       \* table admin_requests: sequence of rows, id = index
    grants,         \* table admin_table_access: set of <<username, table_name>>
    user_data,      \* context.user_data of each account
    conv,           \* state of each ConversationHandler for each account's chat
    reg_buttons,    \* events whose "reg_start:<id>" button is in each account's chat
    reply,          \* what the handler of the last update told the acting account
    outbox,         \* bot.send_message deliveries made by the handler of the last update
    wins,           \* history: decision attempts that got the updated row back
    applied,        \* history: per request, completed runs of _apply_approval
    notices,        \* history: decision notices delivered to requesters
    wrote,          \* history: a step of the account's current flow changed the store
    entered         \* history: registration fields the account typed in its current flow

store == <<users, events, registrations, info, requests, grants>>
vars == <<users, events, registrations, info, requests, grants, user_data, conv,
          reg_buttons, reply, outbox, wins, applied, notices, wrote, entered>>

NoUser == [telegram_id |-> 0, username |-> None, full_name |-> None,
           phone |-> None, role |-> None]

NoPayload == [event_id |-> 0, message |-> None]

\* the parsed command: action and the params the handlers read
UnknownCmd == [action |-> "unknown", event_id |-> 0, max_participants |-> 0]

EmptyUserData ==
    [db_user |-> NoUser,
     reg_event_id |-> 0, reg_name |-> Missing, reg_phone |-> Missing,
     reg_level |-> Missing,
     evt_title |-> Missing, evt_date |-> Missing, evt_time |-> Missing,
     evt_place |-> Missing, evt_desc |-> Missing, evt_max |-> 0,
     info_cat |-> Missing, info_title |-> Missing, info_content |-> Missing,
     ai_cmd_result |-> UnknownCmd, bc_text |-> Missing]

\* reg, evt, info, ai, bc: the conversations of the account's private chat;
\* grp: the registration conversation of the account in a group chat
NoConv == [reg |-> END, evt |-> END, info |-> END, ai |-> END, bc |-> END, grp |-> END]

\* a handler that ran no broadcast loop
NoFanout == [tried |-> <<>>, delivered |-> {}, sent |-> 0, total |-> 0]

NoWrites == [reg |-> FALSE, evt |-> FALSE, info |-> FALSE, ai |-> FALSE, bc |-> FALSE]

EventIds == 1..Len(events)
RequestIds == 1..Len(requests)
InfoIds == 1..Len(info)

\* ------------------------------------------------------------------ db.py: users

get_user(tid) == IF tid \in DOMAIN users THEN users[tid] ELSE NoUser

\* the upsert that writes the whole row again, role and phone at their defaults
upsert_user_replaces(tid, username, full_name) ==
    (tid :> [telegram_id |-> tid, username |-> username, full_name |-> full_name,
             phone |-> None, role |-> USER]) @@ users

\* username TEXT UNIQUE: the statement raises when another row holds the handle
upsert_raises(tid, username) ==
    /\ username # None
    /\ \E t \in DOMAIN users : t # tid /\ users[t].username = username

\* INSERT ... ON CONFLICT (telegram_id) DO UPDATE SET username = COALESCE(new, old),
\* full_name = new
upsert_user(tid, username, full_name) ==
    IF tid \in DOMAIN users
    THEN [users EXCEPT ![tid].username =
                           IF username # None THEN username ELSE users[tid].username,
                       ![tid].full_name = full_name]
    ELSE (tid :> [telegram_id |-> tid, username |-> username, full_name |-> full_name,
                  phone |-> None, role |-> USER]) @@ users

\* UPDATE users SET role = $1 WHERE username = $2 (a NULL username matches nothing)
set_user_role_in(tbl, username, role) ==
    [t \in DOMAIN tbl |->
        IF tbl[t].username # None /\ tbl[t].username = username
        THEN [tbl[t] EXCEPT !.role = role] ELSE tbl[t]]

set_user_role(username, role) == set_user_role_in(users, username, role)

\* tag == "UPDATE 1"
set_user_role_ok(username) ==
    \E t \in DOMAIN users : users[t].username # None /\ users[t].username = username

get_super_admin_ids == {t \in DOMAIN users : users[t].role = SUPER_ADMIN}

get_all_telegram_ids == DOMAIN users

\* ------------------------------------------------------------------ db.py: events

\* create_event that stores the event as active
create_event_active(title, date_start, time, place, description, max_participants, created_by) ==
    Append(events, [title |-> title, date_start |-> date_start, time |-> time,
                    place |-> place, description |-> description,
                    max_participants |-> max_participants,
                    status |-> EV_ACTIVE, created_by |-> created_by])

\* INSERT INTO events ... RETURNING *; the new id is Len(events) + 1
create_event(title, date_start, time, place, description, max_participants, created_by) ==
    Append(events, [title |-> title, date_start |-> date_start, time |-> time,
                    place |-> place, description |-> description,
                    max_participants |-> max_participants,
                    status |-> EV_PENDING, created_by |-> created_by])

get_event_exists(event_id) == event_id \in EventIds

\* UPDATE events SET status = $1 WHERE id = $2 (no condition on the current status)
update_event_status(tbl, event_id, status) ==
    IF event_id \in 1..Len(tbl) THEN [tbl EXCEPT ![event_id].status = status] ELSE tbl

\* activate_event that leaves the event as it is
activate_event_skipped(tbl, event_id) == tbl

activate_event(tbl, event_id) == update_event_status(tbl, event_id, EV_ACTIVE)

archive_event(tbl, event_id) == update_event_status(tbl, event_id, EV_ARCHIVED)

get_active_events == {e \in EventIds : events[e].status = EV_ACTIVE}

\* ------------------------------------------------------------------ db.py: registrations

RegRows(event_id) == {r \in registrations : r.event_id = event_id}

count_event_registrations(event_id) == Cardinality(RegRows(event_id))

\* The row (event_id, telegram_id) violates a foreign key: the statement raises.
register_raises(event_id, telegram_id) ==
    \/ event_id \notin EventIds
    \/ telegram_id \notin DOMAIN users

\* register_for_event as a plain INSERT, without the ON CONFLICT clause
register_for_event_insert(event_id, full_name, username, telegram_id, phone, level) ==
    registrations \cup
        {[id |-> Cardinality(registrations) + 1, event_id |-> event_id,
          username |-> username, telegram_id |-> telegram_id,
          full_name |-> full_name, phone |-> phone, level |-> level]}

\* INSERT ... ON CONFLICT (event_id, telegram_id) DO UPDATE SET full_name, phone, level
register_for_event(event_id, full_name, username, telegram_id, phone, level) ==
    LET old == {r \in registrations :
                    r.event_id = event_id /\ r.telegram_id = telegram_id}
    IN  IF old # {}
        THEN (registrations \ old) \cup
             {[r EXCEPT !.full_name = full_name, !.phone = phone, !.level = level] :
                 r \in old}
        ELSE registrations \cup
             {[id |-> Cardinality(registrations) + 1, event_id |-> event_id,
               username |-> username, telegram_id |-> telegram_id,
               full_name |-> full_name, phone |-> phone, level |-> level]}

\* ------------------------------------------------------------------ db.py: info

create_info(category, title, content) ==
    Append(info, [category |-> category, title |-> title, content |-> content,
                  present |-> TRUE])

\* DELETE FROM info WHERE id = $1; tag == "DELETE 1"
delete_info_ok(info_id) == info_id \in InfoIds /\ info[info_id].present

delete_info(info_id) ==
    IF delete_info_ok(info_id) THEN [info EXCEPT ![info_id].present = FALSE] ELSE info

\* ------------------------------------------------------------------ db.py: admin requests

\* INSERT INTO admin_requests ... RETURNING *; status defaults to 'pending'
create_admin_request(username, request_type, telegram_id, payload) ==
    Append(requests, [username |-> username, telegram_id |-> telegram_id,
                      request_type |-> request_type, requested_table |-> None,
                      payload_json |-> payload, status |-> RQ_PENDING,
                      reviewed_by |-> None])

\* fetchrow returned no row
NoRequest == [username |-> None, telegram_id |-> 0, request_type |-> None,
              requested_table |-> None, payload_json |-> NoPayload,
              status |-> None, reviewed_by |-> None]

\* approve_request without "AND status = 'pending'"
approve_request_unguarded(request_id, reviewed_by) ==
    IF request_id \in RequestIds
    THEN LET t == [requests EXCEPT ![request_id].status = RQ_APPROVED,
                                   ![request_id].reviewed_by = reviewed_by]
         IN  [table |-> t, row |-> t[request_id]]
    ELSE [table |-> requests, row |-> NoRequest]

\* approve_request that returns the row as it is when the guard does not hold
approve_request_returns_current(request_id, reviewed_by) ==
    IF request_id \in RequestIds /\ requests[request_id].status = RQ_PENDING
    THEN LET t == [requests EXCEPT ![request_id].status = RQ_APPROVED,
                                   ![request_id].reviewed_by = reviewed_by]
         IN  [table |-> t, row |-> t[request_id]]
    ELSE [table |-> requests,
          row |-> IF request_id \in RequestIds THEN requests[request_id] ELSE NoRequest]

\* reject_request without "AND status = 'pending'"
reject_request_unguarded(request_id, reviewed_by) ==
    IF request_id \in RequestIds
    THEN LET t == [requests EXCEPT ![request_id].status = RQ_REJECTED,
                                   ![request_id].reviewed_by = reviewed_by]
         IN  [table |-> t, row |-> t[request_id]]
    ELSE [table |-> requests, row |-> NoRequest]

\* UPDATE admin_requests SET status = 'approved', reviewed_by = $1
\* WHERE id = $2 AND status = 'pending' RETURNING *
\* table: the table after the statement; row: the row it returned, or NoRequest
approve_request(request_id, reviewed_by) ==
    IF request_id \in RequestIds /\ requests[request_id].status = RQ_PENDING
    THEN LET t == [requests EXCEPT ![request_id].status = RQ_APPROVED,
                                   ![request_id].reviewed_by = reviewed_by]
         IN  [table |-> t, row |-> t[request_id]]
    ELSE [table |-> requests, row |-> NoRequest]

\* UPDATE admin_requests SET status = 'rejected', reviewed_by = $1
\* WHERE id = $2 AND status = 'pending' RETURNING *
reject_request(request_id, reviewed_by) ==
    IF request_id \in RequestIds /\ requests[request_id].status = RQ_PENDING
    THEN LET t == [requests EXCEPT ![request_id].status = RQ_REJECTED,
                                   ![request_id].reviewed_by = reviewed_by]
         IN  [table |-> t, row |-> t[request_id]]
    ELSE [table |-> requests, row |-> NoRequest]

get_pending_requests == {r \in RequestIds : requests[r].status = RQ_PENDING}

\* the grant that replaces the tables the handle had
grant_table_access_replaces(tbl, username, table_name) == {g \in tbl : g[1] # username} \cup {<<username, table_name>>}

\* INSERT ... ON CONFLICT DO NOTHING
grant_table_access(tbl, username, table_name) == tbl \cup {<<username, table_name>>}

get_admin_tables(username) == {g[2] : g \in {h \in grants : h[1] = username}}

\* ------------------------------------------------------------------ roles.py

\* require_role that lets every registered account through
require_role_any_registered(a, allowed) ==
    IF a \notin DOMAIN users THEN "register_first" ELSE "ok"

\* require_role: what the wrapper does with an update of account a
require_role(a, allowed) ==
    IF a \notin DOMAIN users THEN "register_first"
    ELSE IF users[a].role \notin allowed THEN "no_access"
    ELSE "ok"

\* context.user_data["db_user"] = db_user
Cached(a) == [user_data EXCEPT ![a].db_user = users[a]]

hist == <<wins, applied, notices, wrote, entered>>

\* text: the reply of the handler in group 0; qa: the reply of the free-text
\* handler (group 10) to the same update, "none" when it did not run
Say(a, text, ref) ==
    reply' = [to |-> a, text |-> text, ref |-> ref, qa |-> "none", loop |-> NoFanout]

\* the answer of a handler that ran a broadcast loop: the loop tried and counted
\* what res holds, and the handler tells or logs sent and total
SayLoop(a, text, ref, res) ==
    reply' = [to |-> a, text |-> text, ref |-> ref, qa |-> "none", loop |-> res]

\* the wrapper that stores the identity it has read before it checks the role
Denied_caches(a, outcome) ==
    /\ Say(a, outcome, 0)
    /\ outbox' = {}
    /\ user_data' = IF a \in DOMAIN users THEN Cached(a) ELSE user_data
    /\ UNCHANGED <<store, conv, reg_buttons, hist>>

\* The wrapper replies and returns without calling the handler.
Denied(a, outcome) ==
    /\ Say(a, outcome, 0)
    /\ outbox' = {}
    /\ UNCHANGED <<store, user_data, conv, reg_buttons, hist>>

\* the rows of a query without ORDER BY, here in the order of the key
RECURSIVE IdList(_)
IdList(S) ==
    IF S = {} THEN <<>>
    ELSE LET m == CHOOSE x \in S : \A y \in S : x <= y
         IN  <<m>> \o IdList(S \ {m})

\* the loop that stops at the first delivery that fails
RECURSIVE send_all_aborts(_, _)
send_all_aborts(ids, ok) ==
    IF ids = <<>> THEN NoFanout
    ELSE IF Head(ids) \notin ok
    THEN [tried |-> <<Head(ids)>>, delivered |-> {}, sent |-> 0, total |-> 1]
    ELSE LET rest == send_all_aborts(Tail(ids), ok)
         IN  [tried |-> <<Head(ids)>> \o rest.tried,
              delivered |-> {Head(ids)} \cup rest.delivered,
              sent |-> 1 + rest.sent, total |-> 1 + rest.total]

\* sent = 0; for tid in ids: try: send_message(tid, message); sent += 1
\* except Exception: pass. total is len(ids).
\* ok: the accounts a delivery to which succeeds
RECURSIVE send_all(_, _)
send_all(ids, ok) ==
    IF ids = <<>> THEN NoFanout
    ELSE LET rest == send_all(Tail(ids), ok)
             hit == Head(ids) \in ok
         IN  [tried |-> <<Head(ids)>> \o rest.tried,
              delivered |-> (IF hit THEN {Head(ids)} ELSE {}) \cup rest.delivered,
              sent |-> (IF hit THEN 1 ELSE 0) + rest.sent, total |-> 1 + rest.total]

BroadcastTo(S) == {[to |-> t, kind |-> "broadcast", ref |-> 0] : t \in S}

\* the reviewers' loop that stops at the first delivery that fails
NotifyReviewers_aborts(request_id, ok) ==
    {[to |-> t, kind |-> "review", ref |-> request_id] :
        t \in send_all_aborts(IdList(get_super_admin_ids), ok).delivered}

\* for sa_id in sa_ids: try send_message(...) except: log
\* ok: the accounts a delivery to which succeeds
NotifyReviewers(request_id, ok) ==
    {[to |-> t, kind |-> "review", ref |-> request_id] : t \in get_super_admin_ids \cap ok}

\* ------------------------------------------------------------------ handlers/user.py

cmd_start(a) ==
    /\ users' = upsert_user(a, TgUsername(a), TgFullName(a))
    /\ Say(a, "welcome", 0)
    /\ outbox' = {}
    /\ UNCHANGED <<events, registrations, info, requests, grants, user_data, conv,
                   reg_buttons, hist>>

\* /start of an account whose Telegram profile holds, at the time of the update,
\* the handle username (None: no handle) and the name full_name
\* events.created_by and admin_table_access.username are REFERENCES
\* users(username) ON UPDATE CASCADE: the rows follow the handle of the identity.
cmd_start_as(a, username, full_name) ==
    LET old == get_user(a).username
        renamed == old # None /\ username # None /\ username # old
    IN  /\ outbox' = {}
        /\ UNCHANGED <<registrations, info, requests, user_data, conv, reg_buttons, hist>>
        /\ IF upsert_raises(a, username)
           THEN \* the exception leaves the handler: no reply
                /\ Say(a, "none", 0)
                /\ UNCHANGED <<users, events, grants>>
           ELSE /\ users' = upsert_user(a, username, full_name)
                /\ events' = [e \in DOMAIN events |->
                                 IF renamed /\ events[e].created_by = old
                                 THEN [events[e] EXCEPT !.created_by = username]
                                 ELSE events[e]]
                /\ grants' = {<<IF renamed /\ g[1] = old THEN username ELSE g[1], g[2]>> :
                                 g \in grants}
                /\ Say(a, "welcome", 0)

\* ------------------------------------------------------------------ handlers/admin.py

cmd_apply_admin(a, ok) ==
    IF a \notin DOMAIN users
    THEN /\ Say(a, "start_first", 0)
         /\ outbox' = {}
         /\ UNCHANGED <<store, user_data, conv, reg_buttons, hist>>
    ELSE IF users[a].role \in {ADMIN, SUPER_ADMIN}
    THEN /\ Say(a, "already_admin", 0)
         /\ outbox' = {}
         /\ UNCHANGED <<store, user_data, conv, reg_buttons, hist>>
    ELSE /\ Len(requests) < MaxRequests
         /\ requests' = create_admin_request(
                IF TgUsername(a) # None THEN TgUsername(a) ELSE IdStr(a),
                "admin_access", a, NoPayload)
         /\ applied' = Append(applied, 0)
         /\ Say(a, "request_sent", Len(requests) + 1)
         /\ outbox' = NotifyReviewers(Len(requests) + 1, ok)
         /\ UNCHANGED <<users, events, registrations, info, grants, user_data, conv,
                        reg_buttons, wins, notices, wrote, entered>>

\* ------------------------------------------------------------------ handlers/super_admin.py

\* _apply_approval: the tables after the side effect of an approved request
apply_users(req) ==
    IF req.request_type = "admin_access" THEN set_user_role(req.username, ADMIN) ELSE users

apply_grants(req) ==
    IF req.request_type = "admin_access" /\ req.requested_table # None
    THEN grant_table_access(grants, req.username, req.requested_table) ELSE grants

\* _apply_approval that activates the newest event when the request names none
\* that exists
apply_events_newest(req) ==
    IF req.request_type \in {"event_creation", "event_activation"}
    THEN activate_event(events, IF req.payload_json.event_id \in EventIds
                                THEN req.payload_json.event_id ELSE Len(events))
    ELSE events

apply_events(req) ==
    IF /\ req.request_type \in {"event_creation", "event_activation"}
       /\ req.payload_json.event_id # 0
    THEN activate_event(events, req.payload_json.event_id) ELSE events

apply_fanout(req, ok) ==
    IF req.request_type = "broadcast" /\ req.payload_json.message # None
    THEN send_all(IdList(get_all_telegram_ids), ok) ELSE NoFanout

apply_broadcast(req, ok) ==
    IF req.request_type = "broadcast" /\ req.payload_json.message # None
    THEN BroadcastTo(apply_fanout(req, ok).delivered) ELSE {}

\* _apply_approval awaits at least one store operation for this request
apply_uses_store(req) ==
    \/ req.request_type = "admin_access"
    \/ req.request_type \in {"event_creation", "event_activation"}
            /\ req.payload_json.event_id # 0
    \/ req.request_type = "broadcast" /\ req.payload_json.message # None

\* if req.telegram_id: try send_message(req.telegram_id, ...) except: log
decision_notice(req, request_id, action, ok) ==
    IF req.telegram_id # 0 /\ req.telegram_id \in ok
    THEN {[to |-> req.telegram_id, kind |-> action, ref |-> request_id]}
    ELSE {}

\* the handler that runs _apply_approval whatever the decision is
runs_approval_always(action) == TRUE

\* if action == "approve": await _apply_approval(req, context)
runs_approval(action) == action = "approve"

\* action: "approve" | "reject"; store_fails: a store operation awaited by
\* _apply_approval raises; ok: the accounts a delivery to which succeeds
handle_request_decision(a, action, request_id, store_fails, ok) ==
    LET g == require_role(a, {SUPER_ADMIN})
        reviewer == users[a].username
        res == IF action = "approve" THEN approve_request(request_id, reviewer)
               ELSE reject_request(request_id, reviewer)
        req == res.row
    IN  IF g # "ok" THEN Denied(a, g)
        ELSE
        /\ user_data' = Cached(a)
        /\ requests' = res.table
        /\ UNCHANGED <<registrations, info, conv, reg_buttons>>
        /\ IF req = NoRequest
           THEN /\ Say(a, "already_handled", request_id)
                /\ outbox' = {}
                /\ UNCHANGED <<users, events, grants, hist>>
           ELSE
           /\ wins' = Append(wins, [request_id |-> request_id, action |-> action,
                                     reviewer |-> a])
           /\ IF runs_approval(action) /\ store_fails /\ apply_uses_store(req)
              THEN \* the exception leaves the handler: nothing after it runs
                   /\ Say(a, "none", request_id)
                   /\ outbox' = {}
                   /\ UNCHANGED <<users, events, grants, applied, notices, wrote, entered>>
              ELSE
              /\ UNCHANGED <<wrote, entered>>
              /\ users' = IF runs_approval(action) THEN apply_users(req) ELSE users
              /\ grants' = IF runs_approval(action) THEN apply_grants(req) ELSE grants
              /\ events' = IF runs_approval(action) THEN apply_events(req) ELSE events
              /\ applied' = IF runs_approval(action)
                            THEN [applied EXCEPT ![request_id] = @ + 1] ELSE applied
              /\ SayLoop(a, action, request_id,
                         IF runs_approval(action) THEN apply_fanout(req, ok) ELSE NoFanout)
              /\ outbox' = (IF runs_approval(action) THEN apply_broadcast(req, ok) ELSE {})
                             \cup decision_notice(req, request_id, action, ok)
              /\ notices' = IF decision_notice(req, request_id, action, ok) # {}
                            THEN Append(notices, [request_id |-> request_id,
                                                  outcome |-> action])
                            ELSE notices

cmd_pending(a) ==
    LET g == require_role(a, {SUPER_ADMIN})
    IN  IF g # "ok" THEN Denied(a, g)
        ELSE /\ user_data' = Cached(a)
             /\ Say(a, IF get_pending_requests = {} THEN "no_pending" ELSE "pending_list", 0)
             /\ outbox' = {}
             /\ UNCHANGED <<store, conv, reg_buttons, hist>>

cmd_set_role(a, username, role) ==
    LET g == require_role(a, {SUPER_ADMIN})
    IN  IF g # "ok" THEN Denied(a, g)
        ELSE /\ user_data' = Cached(a)
             /\ users' = set_user_role(username, role)
             /\ Say(a, IF set_user_role_ok(username) THEN "role_changed"
                       ELSE "user_not_found", 0)
             /\ outbox' = {}
             /\ UNCHANGED <<events, registrations, info, requests, grants, conv,
                            reg_buttons, hist>>

\* ------------------------------------------------------------------ update dispatch

\* Conversation states (registration.py:23, admin.py:29-38, super_admin.py:25)
RegTextStates == {"ASK_NAME", "ASK_PHONE", "ASK_LEVEL"}
EvtTextStates == {"EVT_TITLE", "EVT_DATE", "EVT_TIME", "EVT_PLACE", "EVT_DESC", "EVT_MAX"}
EvtSkipStates == {"EVT_TIME", "EVT_PLACE", "EVT_DESC", "EVT_MAX"}
InfoTextStates == {"INFO_CATEGORY", "INFO_TITLE", "INFO_CONTENT"}

\* Handlers of one group are tried in the order they were added (handlers/__init__.py:
\* user, registration, admin (evt, info, ai), super_admin (bc)); the first one whose
\* filter matches handles the update. A conversation that is active takes an update only
\* through the handlers of its state and its fallbacks.

\* the conversation that handles a text message that is not a command
TextTaker(a) ==
    IF conv[a].reg \in RegTextStates THEN "reg"
    ELSE IF conv[a].evt \in EvtTextStates THEN "evt"
    ELSE IF conv[a].info \in InfoTextStates THEN "info"
    ELSE IF conv[a].ai = "WAIT_TEXT_CMD" THEN "ai"
    ELSE IF conv[a].bc = "BC_TEXT" THEN "bc"
    ELSE "none"

\* the conversation that handles /skip
SkipTaker(a) ==
    IF conv[a].reg \in RegTextStates THEN "reg"
    ELSE IF conv[a].evt \in EvtSkipStates THEN "evt"
    ELSE "none"

\* the conversation that handles /cancel: every conversation has it as a fallback
CancelTaker(a) ==
    IF conv[a].reg # END THEN "reg"
    ELSE IF conv[a].evt # END THEN "evt"
    ELSE IF conv[a].info # END THEN "info"
    ELSE IF conv[a].ai # END THEN "ai"
    ELSE IF conv[a].bc # END THEN "bc"
    ELSE "none"

\* the conversation whose state handler takes input t ("/skip" or a text)
InputTaker(a, t) == IF t = "/skip" THEN SkipTaker(a) ELSE TextTaker(a)

\* ------------------------------------------------------------------ handlers/user.py

\* handle_message (group 10) runs for every text that is not a command, also
\* when a conversation of group 0 has handled the same update.
\* marker: the LLM's answer holds the registration marker
hm_users(a, t) ==
    IF t = "/skip" \/ a \in DOMAIN users THEN users
    ELSE upsert_user(a, TgUsername(a), TgFullName(a))

hm_reply(t, marker) ==
    IF t = "/skip" THEN "none"
    ELSE IF ~marker THEN "answer"
    ELSE IF get_active_events # {} THEN "offer_events" ELSE "no_active_events"

hm_buttons(a, t, marker) ==
    IF t # "/skip" /\ marker
    THEN [reg_buttons EXCEPT ![a] = @ \cup get_active_events] ELSE reg_buttons

SayBoth(a, text, ref, t, marker) ==
    reply' = [to |-> a, text |-> text, ref |-> ref, qa |-> hm_reply(t, marker),
              loop |-> NoFanout]

handle_message(a, t, marker) ==
    /\ t # "/skip"
    /\ TextTaker(a) = "none"
    /\ users' = hm_users(a, t)
    /\ reg_buttons' = hm_buttons(a, t, marker)
    /\ SayBoth(a, "none", 0, t, marker)
    /\ outbox' = {}
    /\ UNCHANGED <<events, registrations, info, requests, grants, user_data, conv, hist>>

\* bot.py main: Application.builder() ... .build() leaves concurrent_updates off,
\* and every handler is added with block at its default: the update fetcher
\* awaits the handlers of one update before it takes the next update from the
\* queue. A handler that is suspended at answer_user_question is in flight.
handler_in_flight == reply.qa = "awaiting"

\* handle_message up to `reply = await answer_user_question(text, user.full_name)`
handle_message_awaits(a, t) ==
    /\ ~handler_in_flight
    /\ t # "/skip"
    /\ TextTaker(a) = "none"
    /\ users' = hm_users(a, t)
    /\ reply' = [to |-> a, text |-> "none", ref |-> 0, qa |-> "awaiting", loop |-> NoFanout]
    /\ outbox' = {}
    /\ UNCHANGED <<events, registrations, info, requests, grants, user_data, conv,
                   reg_buttons, hist>>

\* handle_message from the LLM's answer on
handle_message_resumes(a, marker) ==
    /\ handler_in_flight
    /\ reply.to = a
    /\ reg_buttons' = hm_buttons(a, "x", marker)
    /\ reply' = [reply EXCEPT !.qa = hm_reply("x", marker)]
    /\ outbox' = {}
    /\ UNCHANGED <<store, user_data, conv, hist>>

cmd_events(a) ==
    /\ reg_buttons' = [reg_buttons EXCEPT ![a] = @ \cup get_active_events]
    /\ Say(a, IF get_active_events = {} THEN "no_active_events" ELSE "events_list", 0)
    /\ outbox' = {}
    /\ UNCHANGED <<store, user_data, conv, hist>>

\* ------------------------------------------------------------------ handlers/registration.py

\* reg_start without its capacity check
reg_full_unchecked(event_id) == FALSE

\* if event.max_participants > 0: count = ...; if count >= event.max_participants
reg_full(event_id) ==
    /\ events[event_id].max_participants > 0
    /\ count_event_registrations(event_id) >= events[event_id].max_participants

\* entry point: the button "reg_start:<event_id>"
reg_start(a, event_id) ==
    /\ conv[a].reg = END
    /\ event_id \in reg_buttons[a]
    /\ outbox' = {}
    /\ UNCHANGED <<store, reg_buttons, wins, applied, notices>>
    /\ wrote' = [wrote EXCEPT ![a].reg = FALSE]
    /\ entered' = [entered EXCEPT ![a] = {}]
    /\ IF ~get_event_exists(event_id)
       THEN /\ Say(a, "event_not_found", event_id)
            /\ UNCHANGED <<user_data, conv>>
       ELSE IF reg_full(event_id)
       THEN /\ Say(a, "event_full", event_id)
            /\ UNCHANGED <<user_data, conv>>
       ELSE /\ user_data' =
                  [user_data EXCEPT ![a].reg_event_id = event_id,
                                    ![a].reg_name = IF a \in DOMAIN users
                                                    THEN users[a].full_name ELSE @]
            /\ conv' = [conv EXCEPT ![a].reg = "ASK_NAME"]
            /\ Say(a, IF a \in DOMAIN users THEN "reg_name_prefilled" ELSE "reg_ask_name",
                   event_id)

ask_name(a, t, marker) ==
    /\ conv[a].reg = "ASK_NAME"
    /\ user_data' = [user_data EXCEPT ![a].reg_name = IF t # "/skip" THEN t ELSE @]
    /\ conv' = [conv EXCEPT ![a].reg = "ASK_PHONE"]
    /\ users' = hm_users(a, t)
    /\ reg_buttons' = hm_buttons(a, t, marker)
    /\ SayBoth(a, "reg_ask_phone", 0, t, marker)
    /\ outbox' = {}
    /\ UNCHANGED <<events, registrations, info, requests, grants, wins, applied, notices>>
    /\ wrote' = [wrote EXCEPT ![a].reg = @ \/ hm_users(a, t) # users]
    /\ entered' = [entered EXCEPT ![a] = IF t # "/skip" THEN @ \cup {"reg_name"} ELSE @]

\* ask_phone that keeps the phone of the last flow on /skip
ask_phone_keeps(a, t, marker) ==
    /\ conv[a].reg = "ASK_PHONE"
    /\ user_data' = [user_data EXCEPT ![a].reg_phone = IF t # "/skip" THEN t ELSE @]
    /\ conv' = [conv EXCEPT ![a].reg = "ASK_LEVEL"]
    /\ users' = hm_users(a, t)
    /\ reg_buttons' = hm_buttons(a, t, marker)
    /\ SayBoth(a, "reg_ask_level", 0, t, marker)
    /\ outbox' = {}
    /\ UNCHANGED <<events, registrations, info, requests, grants, wins, applied, notices>>
    /\ wrote' = [wrote EXCEPT ![a].reg = @ \/ hm_users(a, t) # users]
    /\ entered' = [entered EXCEPT ![a] = IF t # "/skip" THEN @ \cup {"reg_phone"} ELSE @]

ask_phone(a, t, marker) ==
    /\ conv[a].reg = "ASK_PHONE"
    /\ user_data' = [user_data EXCEPT ![a].reg_phone = IF t # "/skip" THEN t ELSE None]
    /\ conv' = [conv EXCEPT ![a].reg = "ASK_LEVEL"]
    /\ users' = hm_users(a, t)
    /\ reg_buttons' = hm_buttons(a, t, marker)
    /\ SayBoth(a, "reg_ask_level", 0, t, marker)
    /\ outbox' = {}
    /\ UNCHANGED <<events, registrations, info, requests, grants, wins, applied, notices>>
    /\ wrote' = [wrote EXCEPT ![a].reg = @ \/ hm_users(a, t) # users]
    /\ entered' = [entered EXCEPT ![a] = IF t # "/skip" THEN @ \cup {"reg_phone"} ELSE @]

ask_level(a, t, marker) ==
    /\ conv[a].reg = "ASK_LEVEL"
    /\ user_data' = [user_data EXCEPT ![a].reg_level = IF t # "/skip" THEN t ELSE None]
    /\ conv' = [conv EXCEPT ![a].reg = "CONFIRM"]
    /\ users' = hm_users(a, t)
    /\ reg_buttons' = hm_buttons(a, t, marker)
    /\ SayBoth(a, "reg_confirm_prompt", 0, t, marker)
    /\ outbox' = {}
    /\ UNCHANGED <<events, registrations, info, requests, grants, wins, applied, notices>>
    /\ wrote' = [wrote EXCEPT ![a].reg = @ \/ hm_users(a, t) # users]
    /\ entered' = [entered EXCEPT ![a] = IF t # "/skip" THEN @ \cup {"reg_level"} ELSE @]

\* user_data.get(key): None when the key is absent
ud_get(v) == IF v = Missing THEN None ELSE v

\* confirm as a handler that also answers once the conversation has ended
confirm_after_end(a, yes) ==
    /\ conv[a].reg \in {"CONFIRM", END}
    /\ user_data[a].reg_event_id # 0
    /\ conv' = [conv EXCEPT ![a].reg = END]
    /\ outbox' = {}
    /\ UNCHANGED <<users, events, info, requests, grants, user_data, reg_buttons, wins,
                   applied, notices, wrote>>
    /\ entered' = [entered EXCEPT ![a] = {}]
    /\ IF ~yes
       THEN /\ Say(a, "reg_cancelled", 0)
            /\ UNCHANGED registrations
       ELSE LET ud == user_data[a]
                name == IF ud.reg_name = Missing THEN TgFullName(a) ELSE ud.reg_name
            IN  IF register_raises(ud.reg_event_id, a)
                THEN /\ Say(a, "reg_error", ud.reg_event_id)
                     /\ UNCHANGED registrations
                ELSE /\ registrations' =
                           register_for_event(ud.reg_event_id, name, TgUsername(a), a,
                                              ud_get(ud.reg_phone), ud_get(ud.reg_level))
                     /\ Say(a, "registered", ud.reg_event_id)

\* confirm that reads the registration count again before it commits
confirm_rechecks(a, yes) ==
    /\ conv[a].reg = "CONFIRM"
    /\ conv' = [conv EXCEPT ![a].reg = END]
    /\ outbox' = {}
    /\ UNCHANGED <<users, events, info, requests, grants, user_data, reg_buttons, wins,
                   applied, notices, wrote>>
    /\ entered' = [entered EXCEPT ![a] = {}]
    /\ IF ~yes
       THEN /\ Say(a, "reg_cancelled", 0)
            /\ UNCHANGED registrations
       ELSE LET ud == user_data[a]
                name == IF ud.reg_name = Missing THEN TgFullName(a) ELSE ud.reg_name
            IN  IF register_raises(ud.reg_event_id, a)
                THEN /\ Say(a, "reg_error", ud.reg_event_id)
                     /\ UNCHANGED registrations
                ELSE IF reg_full(ud.reg_event_id)
                THEN /\ Say(a, "event_full", ud.reg_event_id)
                     /\ UNCHANGED registrations
                ELSE /\ registrations' =
                           register_for_event(ud.reg_event_id, name, TgUsername(a), a,
                                              ud_get(ud.reg_phone), ud_get(ud.reg_level))
                     /\ Say(a, "registered", ud.reg_event_id)

\* the buttons "reg_confirm:yes" / "reg_confirm:no"
confirm(a, yes) ==
    /\ conv[a].reg = "CONFIRM"
    /\ conv' = [conv EXCEPT ![a].reg = END]
    /\ outbox' = {}
    /\ UNCHANGED <<users, events, info, requests, grants, user_data, reg_buttons, wins,
                   applied, notices, wrote>>
    /\ entered' = [entered EXCEPT ![a] = {}]
    /\ IF ~yes
       THEN /\ Say(a, "reg_cancelled", 0)
            /\ UNCHANGED registrations
       ELSE LET ud == user_data[a]
                name == IF ud.reg_name = Missing THEN TgFullName(a) ELSE ud.reg_name
            IN  IF register_raises(ud.reg_event_id, a)
                THEN /\ Say(a, "reg_error", ud.reg_event_id)
                     /\ UNCHANGED registrations
                ELSE /\ registrations' =
                           register_for_event(ud.reg_event_id, name, TgUsername(a), a,
                                              ud_get(ud.reg_phone), ud_get(ud.reg_level))
                     /\ Say(a, "registered", ud.reg_event_id)

\* fallback /cancel of the registration conversation
cancel(a) ==
    /\ CancelTaker(a) = "reg"
    /\ conv' = [conv EXCEPT ![a].reg = END]
    /\ Say(a, "reg_cancelled", 0)
    /\ outbox' = {}
    /\ UNCHANGED <<store, user_data, reg_buttons, wins, applied, notices, wrote>>
    /\ entered' = [entered EXCEPT ![a] = {}]

\* ------------------------------------------------------------------ registration in a group chat

\* The conversation is keyed by (chat, user) (per_chat, per_user); context.user_data
\* is keyed by the user alone, so the handlers of a second chat read and write the
\* same dictionary. The group chat holds the list of the events that are active.

\* entry point: the button "reg_start:<event_id>", pressed in the group chat
reg_start_group(a, event_id) ==
    /\ conv[a].grp = END
    /\ event_id \in get_active_events
    /\ outbox' = {}
    /\ UNCHANGED <<store, reg_buttons, hist>>
    /\ IF reg_full(event_id)
       THEN /\ Say(a, "event_full", event_id)
            /\ UNCHANGED <<user_data, conv>>
       ELSE /\ user_data' =
                  [user_data EXCEPT ![a].reg_event_id = event_id,
                                    ![a].reg_name = IF a \in DOMAIN users
                                                    THEN users[a].full_name ELSE @]
            /\ conv' = [conv EXCEPT ![a].grp = "ASK_NAME"]
            /\ Say(a, IF a \in DOMAIN users THEN "reg_name_prefilled" ELSE "reg_ask_name",
                   event_id)

\* ask_name for a message of the account in the group chat
ask_name_group(a, t, marker) ==
    /\ conv[a].grp = "ASK_NAME"
    /\ user_data' = [user_data EXCEPT ![a].reg_name = IF t # "/skip" THEN t ELSE @]
    /\ conv' = [conv EXCEPT ![a].grp = "ASK_PHONE"]
    /\ users' = hm_users(a, t)
    /\ reg_buttons' = reg_buttons
    /\ SayBoth(a, "reg_ask_phone", 0, t, marker)
    /\ outbox' = {}
    /\ UNCHANGED <<events, registrations, info, requests, grants, hist>>

\* fallback /cancel, sent in the group chat
cancel_group(a) ==
    /\ conv[a].grp # END
    /\ conv' = [conv EXCEPT ![a].grp = END]
    /\ Say(a, "reg_cancelled", 0)
    /\ outbox' = {}
    /\ UNCHANGED <<store, user_data, reg_buttons, hist>>

\* ------------------------------------------------------------------ handlers/admin.py: panel

cmd_admin(a) ==
    LET g == require_role(a, {ADMIN, SUPER_ADMIN})
    IN  IF g # "ok" THEN Denied(a, g)
        ELSE /\ user_data' = Cached(a)
             /\ Say(a, "admin_panel", 0)
             /\ outbox' = {}
             /\ UNCHANGED <<store, conv, reg_buttons, hist>>

\* data of the panel buttons that admin_callback routes
PanelButtons == {"list_events", "list_info", "export_sheets", "event_detail",
                 "event_activate", "event_archive", "event_regs", "info_delete"}

\* _event_activate for an admin who is not a super-admin: a request for approval
event_activate_request(a, event_id, ok) ==
    IF ~get_event_exists(event_id)
    THEN /\ Say(a, "event_not_found", event_id)
         /\ outbox' = {}
         /\ UNCHANGED <<requests, applied>>
    ELSE /\ Len(requests) < MaxRequests
         /\ requests' = create_admin_request(
                IF users[a].username # None THEN users[a].username ELSE IdStr(a),
                "event_activation", a, [event_id |-> event_id, message |-> None])
         /\ applied' = Append(applied, 0)
         /\ Say(a, "activation_requested", Len(requests) + 1)
         /\ outbox' = NotifyReviewers(Len(requests) + 1, ok)

\* button: one of PanelButtons; id: the id the button carries
admin_callback(a, button, id, ok) ==
    LET g == require_role(a, {ADMIN, SUPER_ADMIN})
    IN  IF g # "ok" THEN Denied(a, g)
        ELSE
        /\ user_data' = Cached(a)
        /\ UNCHANGED <<users, registrations, grants, conv, reg_buttons, wins, notices,
                       wrote, entered>>
        /\ CASE button = "event_activate" /\ users[a].role = SUPER_ADMIN ->
                  /\ events' = activate_event(events, id)
                  /\ Say(a, IF get_event_exists(id) THEN "event_activated"
                            ELSE "activate_error", id)
                  /\ outbox' = {}
                  /\ UNCHANGED <<info, requests, applied>>
             [] button = "event_activate" /\ users[a].role # SUPER_ADMIN ->
                  /\ event_activate_request(a, id, ok)
                  /\ UNCHANGED <<events, info>>
             [] button = "event_archive" ->
                  /\ events' = archive_event(events, id)
                  /\ Say(a, IF get_event_exists(id) THEN "event_archived"
                            ELSE "archive_error", id)
                  /\ outbox' = {}
                  /\ UNCHANGED <<info, requests, applied>>
             [] button = "info_delete" ->
                  /\ info' = delete_info(id)
                  /\ Say(a, IF delete_info_ok(id) THEN "info_deleted" ELSE "delete_failed", id)
                  /\ outbox' = {}
                  /\ UNCHANGED <<events, requests, applied>>
             [] OTHER ->
                  \* list_events, list_info, export_sheets, event_detail, event_regs: reads
                  /\ Say(a, button, id)
                  /\ outbox' = {}
                  /\ UNCHANGED <<events, info, requests, applied>>

\* ------------------------------------------------------------------ handlers/admin.py: event creation

\* date.fromisoformat(text) succeeds
DateTexts == {"2025-01-15"}
IsIsoDate(t) == t \in DateTexts

\* int(text)
IsInt(t) == t \in {"1", "2"}
IntOf(t) == IF t = "1" THEN 1 ELSE 2

\* entry point: the button "adm:create_event"
evt_start(a) ==
    /\ conv[a].evt = END
    /\ LET g == require_role(a, {ADMIN, SUPER_ADMIN})
       IN  IF g # "ok" THEN Denied(a, g)
           ELSE /\ user_data' = Cached(a)
                /\ conv' = [conv EXCEPT ![a].evt = "EVT_TITLE"]
                /\ Say(a, "evt_ask_title", 0)
                /\ outbox' = {}
                /\ UNCHANGED <<store, reg_buttons, wins, applied, notices>>
                /\ wrote' = [wrote EXCEPT ![a].evt = FALSE]
                /\ UNCHANGED entered

\* what every text step of a flow leaves alone, and the free-text handler's part
EvtStep(a, t, marker) ==
    /\ InputTaker(a, t) = "evt"
    /\ users' = hm_users(a, t)
    /\ reg_buttons' = hm_buttons(a, t, marker)
    /\ outbox' = {}
    /\ UNCHANGED <<events, registrations, info, requests, grants, wins, applied, notices>>
    /\ wrote' = [wrote EXCEPT ![a].evt = @ \/ hm_users(a, t) # users]
    /\ UNCHANGED entered

evt_title(a, t, marker) ==
    /\ conv[a].evt = "EVT_TITLE"
    /\ EvtStep(a, t, marker)
    /\ user_data' = [user_data EXCEPT ![a].evt_title = t]
    /\ conv' = [conv EXCEPT ![a].evt = "EVT_DATE"]
    /\ SayBoth(a, "evt_ask_date", 0, t, marker)

evt_date(a, t, marker) ==
    /\ conv[a].evt = "EVT_DATE"
    /\ EvtStep(a, t, marker)
    /\ IF IsIsoDate(t)
       THEN /\ user_data' = [user_data EXCEPT ![a].evt_date = t]
            /\ conv' = [conv EXCEPT ![a].evt = "EVT_TIME"]
            /\ SayBoth(a, "evt_ask_time", 0, t, marker)
       ELSE /\ UNCHANGED <<user_data, conv>>
            /\ SayBoth(a, "evt_bad_date", 0, t, marker)

evt_time(a, t, marker) ==
    /\ conv[a].evt = "EVT_TIME"
    /\ EvtStep(a, t, marker)
    /\ user_data' = [user_data EXCEPT ![a].evt_time = IF t # "/skip" THEN t ELSE None]
    /\ conv' = [conv EXCEPT ![a].evt = "EVT_PLACE"]
    /\ SayBoth(a, "evt_ask_place", 0, t, marker)

evt_place(a, t, marker) ==
    /\ conv[a].evt = "EVT_PLACE"
    /\ EvtStep(a, t, marker)
    /\ user_data' = [user_data EXCEPT ![a].evt_place = IF t # "/skip" THEN t ELSE None]
    /\ conv' = [conv EXCEPT ![a].evt = "EVT_DESC"]
    /\ SayBoth(a, "evt_ask_desc", 0, t, marker)

evt_desc(a, t, marker) ==
    /\ conv[a].evt = "EVT_DESC"
    /\ EvtStep(a, t, marker)
    /\ user_data' = [user_data EXCEPT ![a].evt_desc = IF t # "/skip" THEN t ELSE None]
    /\ conv' = [conv EXCEPT ![a].evt = "EVT_MAX"]
    /\ SayBoth(a, "evt_ask_max", 0, t, marker)

evt_max(a, t, marker) ==
    /\ conv[a].evt = "EVT_MAX"
    /\ EvtStep(a, t, marker)
    /\ user_data' = [user_data EXCEPT ![a].evt_max =
                        IF t # "/skip" /\ IsInt(t) THEN IntOf(t) ELSE 0]
    /\ conv' = [conv EXCEPT ![a].evt = "EVT_CONFIRM"]
    /\ SayBoth(a, "evt_confirm_prompt", 0, t, marker)

\* the buttons "evt_confirm:yes" / "evt_confirm:no"
evt_confirm(a, yes, ok) ==
    /\ conv[a].evt = "EVT_CONFIRM"
    /\ UNCHANGED <<users, registrations, info, grants, user_data, reg_buttons, wins,
                   notices, wrote, entered>>
    /\ IF ~yes
       THEN /\ conv' = [conv EXCEPT ![a].evt = END]
            /\ Say(a, "evt_cancelled", 0)
            /\ outbox' = {}
            /\ UNCHANGED <<events, requests, applied>>
       ELSE LET ud == user_data[a]
                db_user == ud.db_user
                created == create_event(ud.evt_title, ud.evt_date, ud_get(ud.evt_time),
                                        ud_get(ud.evt_place), ud_get(ud.evt_desc),
                                        ud.evt_max, db_user.username)
                event_id == Len(events) + 1
            IN  /\ Len(events) < MaxEvents
                /\ IF db_user # NoUser /\ db_user.role = SUPER_ADMIN
                   THEN /\ events' = activate_event(created, event_id)
                        /\ conv' = [conv EXCEPT ![a].evt = END]
                        /\ Say(a, "evt_created_active", event_id)
                        /\ outbox' = {}
                        /\ UNCHANGED <<requests, applied>>
                   ELSE IF db_user = NoUser
                   THEN \* str(db_user.telegram_id) raises after the event is stored
                        /\ events' = created
                        /\ Say(a, "none", event_id)
                        /\ outbox' = {}
                        /\ UNCHANGED <<conv, requests, applied>>
                   ELSE /\ Len(requests) < MaxRequests
                        /\ events' = created
                        /\ requests' = create_admin_request(
                              IF db_user.username # None THEN db_user.username
                              ELSE IdStr(db_user.telegram_id),
                              "event_creation", db_user.telegram_id,
                              [event_id |-> event_id, message |-> None])
                        /\ applied' = Append(applied, 0)
                        /\ conv' = [conv EXCEPT ![a].evt = END]
                        /\ Say(a, "evt_created_pending", event_id)
                        /\ outbox' = NotifyReviewers(Len(requests) + 1, ok)

\* fallback /cancel of a conversation: the conversation ends, nothing else changes
evt_cancel(a) ==
    /\ CancelTaker(a) = "evt"
    /\ conv' = [conv EXCEPT ![a].evt = END]
    /\ Say(a, "evt_cancelled", 0)
    /\ outbox' = {}
    /\ UNCHANGED <<store, user_data, reg_buttons, hist>>

\* ------------------------------------------------------------------ handlers/admin.py: info creation

\* entry point: the button "adm:create_info"
info_start(a) ==
    /\ conv[a].info = END
    /\ LET g == require_role(a, {ADMIN, SUPER_ADMIN})
       IN  IF g # "ok" THEN Denied(a, g)
           ELSE /\ user_data' = Cached(a)
                /\ conv' = [conv EXCEPT ![a].info = "INFO_CATEGORY"]
                /\ Say(a, "info_ask_category", 0)
                /\ outbox' = {}
                /\ UNCHANGED <<store, reg_buttons, wins, applied, notices>>
                /\ wrote' = [wrote EXCEPT ![a].info = FALSE]
                /\ UNCHANGED entered

InfoStep(a, t, marker) ==
    /\ t # "/skip"
    /\ TextTaker(a) = "info"
    /\ users' = hm_users(a, t)
    /\ reg_buttons' = hm_buttons(a, t, marker)
    /\ outbox' = {}
    /\ UNCHANGED <<events, registrations, info, requests, grants, wins, applied, notices>>
    /\ wrote' = [wrote EXCEPT ![a].info = @ \/ hm_users(a, t) # users]
    /\ UNCHANGED entered

info_category(a, t, marker) ==
    /\ conv[a].info = "INFO_CATEGORY"
    /\ InfoStep(a, t, marker)
    /\ user_data' = [user_data EXCEPT ![a].info_cat = t]
    /\ conv' = [conv EXCEPT ![a].info = "INFO_TITLE"]
    /\ SayBoth(a, "info_ask_title", 0, t, marker)

info_title(a, t, marker) ==
    /\ conv[a].info = "INFO_TITLE"
    /\ InfoStep(a, t, marker)
    /\ user_data' = [user_data EXCEPT ![a].info_title = t]
    /\ conv' = [conv EXCEPT ![a].info = "INFO_CONTENT"]
    /\ SayBoth(a, "info_ask_content", 0, t, marker)

info_content(a, t, marker) ==
    /\ conv[a].info = "INFO_CONTENT"
    /\ InfoStep(a, t, marker)
    /\ user_data' = [user_data EXCEPT ![a].info_content = t]
    /\ conv' = [conv EXCEPT ![a].info = "INFO_CONFIRM"]
    /\ SayBoth(a, "info_confirm_prompt", 0, t, marker)

\* the buttons "info_confirm:yes" / "info_confirm:no"
info_confirm(a, yes) ==
    /\ conv[a].info = "INFO_CONFIRM"
    /\ conv' = [conv EXCEPT ![a].info = END]
    /\ outbox' = {}
    /\ UNCHANGED <<users, events, registrations, requests, grants, user_data,
                   reg_buttons, hist>>
    /\ IF ~yes
       THEN /\ Say(a, "info_cancelled", 0)
            /\ UNCHANGED info
       ELSE /\ Len(info) < MaxInfo
            /\ info' = create_info(user_data[a].info_cat, user_data[a].info_title,
                                   user_data[a].info_content)
            /\ Say(a, "info_saved", Len(info) + 1)

info_cancel(a) ==
    /\ CancelTaker(a) = "info"
    /\ conv' = [conv EXCEPT ![a].info = END]
    /\ Say(a, "info_cancelled", 0)
    /\ outbox' = {}
    /\ UNCHANGED <<store, user_data, reg_buttons, hist>>

\* ------------------------------------------------------------------ handlers/admin.py: text command

\* entry point: the button "adm:text_cmd"
text_cmd_start(a) ==
    /\ conv[a].ai = END
    /\ LET g == require_role(a, {ADMIN, SUPER_ADMIN})
       IN  IF g # "ok" THEN Denied(a, g)
           ELSE /\ user_data' = Cached(a)
                /\ conv' = [conv EXCEPT ![a].ai = "WAIT_TEXT_CMD"]
                /\ Say(a, "ai_ask_text", 0)
                /\ outbox' = {}
                /\ UNCHANGED <<store, reg_buttons, wins, applied, notices>>
                /\ wrote' = [wrote EXCEPT ![a].ai = FALSE]
                /\ UNCHANGED entered

\* result: what claude_ai.parse_admin_command returned for the text
text_cmd_parse(a, t, result, marker) ==
    /\ t # "/skip"
    /\ conv[a].ai = "WAIT_TEXT_CMD"
    /\ TextTaker(a) = "ai"
    /\ user_data' = [user_data EXCEPT ![a].ai_cmd_result = result]
    /\ conv' = [conv EXCEPT ![a].ai = "WAIT_CONFIRM"]
    /\ users' = hm_users(a, t)
    /\ reg_buttons' = hm_buttons(a, t, marker)
    /\ SayBoth(a, "ai_confirm_prompt", 0, t, marker)
    /\ outbox' = {}
    /\ UNCHANGED <<events, registrations, info, requests, grants, wins, applied, notices>>
    /\ wrote' = [wrote EXCEPT ![a].ai = @ \/ hm_users(a, t) # users]
    /\ UNCHANGED entered

\* text_cmd_confirm that stores an info snippet for an action it does not know
text_cmd_confirm_stores(a, yes) ==
    /\ conv[a].ai = "WAIT_CONFIRM"
    /\ conv' = [conv EXCEPT ![a].ai = END]
    /\ outbox' = {}
    /\ UNCHANGED <<users, registrations, requests, grants, user_data, reg_buttons, hist>>
    /\ IF ~yes
       THEN /\ Say(a, "ai_cancelled", 0)
            /\ UNCHANGED <<events, info>>
       ELSE LET result == user_data[a].ai_cmd_result
                db_user == user_data[a].db_user
            IN  CASE result.action = "create_event" ->
                       /\ Len(events) < MaxEvents
                       /\ events' = create_event("parsed", "parsed", None, None, None,
                                                 result.max_participants, db_user.username)
                       /\ Say(a, "ai_event_created", Len(events) + 1)
                       /\ UNCHANGED info
                  [] result.action = "archive_event" ->
                       /\ events' = IF result.event_id # 0
                                    THEN archive_event(events, result.event_id) ELSE events
                       /\ Say(a, IF result.event_id # 0 THEN "ai_event_archived"
                                 ELSE "ai_no_event", result.event_id)
                       /\ UNCHANGED info
                  [] OTHER ->
                       /\ Len(info) < MaxInfo
                       /\ info' = create_info("parsed", "parsed", "parsed")
                       /\ Say(a, "ai_info_created", Len(info) + 1)
                       /\ UNCHANGED events

\* the buttons "ai_confirm:yes" / "ai_confirm:no"
text_cmd_confirm(a, yes) ==
    /\ conv[a].ai = "WAIT_CONFIRM"
    /\ conv' = [conv EXCEPT ![a].ai = END]
    /\ outbox' = {}
    /\ UNCHANGED <<users, registrations, requests, grants, user_data, reg_buttons, hist>>
    /\ IF ~yes
       THEN /\ Say(a, "ai_cancelled", 0)
            /\ UNCHANGED <<events, info>>
       ELSE LET result == user_data[a].ai_cmd_result
                db_user == user_data[a].db_user
            IN  CASE result.action = "create_event" ->
                       /\ Len(events) < MaxEvents
                       /\ events' = create_event("parsed", "parsed", None, None, None,
                                                 result.max_participants, db_user.username)
                       /\ Say(a, "ai_event_created", Len(events) + 1)
                       /\ UNCHANGED info
                  [] result.action = "create_info" ->
                       /\ Len(info) < MaxInfo
                       /\ info' = create_info("parsed", "parsed", "parsed")
                       /\ Say(a, "ai_info_created", Len(info) + 1)
                       /\ UNCHANGED events
                  [] result.action = "archive_event" ->
                       /\ events' = IF result.event_id # 0
                                    THEN archive_event(events, result.event_id) ELSE events
                       /\ Say(a, IF result.event_id # 0 THEN "ai_event_archived"
                                 ELSE "ai_no_event", result.event_id)
                       /\ UNCHANGED info
                  [] OTHER ->
                       /\ Say(a, "ai_not_implemented", 0)
                       /\ UNCHANGED <<events, info>>

text_cmd_cancel(a) ==
    /\ CancelTaker(a) = "ai"
    /\ conv' = [conv EXCEPT ![a].ai = END]
    /\ Say(a, "ai_cancelled", 0)
    /\ outbox' = {}
    /\ UNCHANGED <<store, user_data, reg_buttons, hist>>

\* ------------------------------------------------------------------ handlers/super_admin.py: broadcast

\* entry point: /broadcast
broadcast_start(a) ==
    /\ conv[a].bc = END
    /\ LET g == require_role(a, {SUPER_ADMIN})
       IN  IF g # "ok" THEN Denied(a, g)
           ELSE /\ user_data' = Cached(a)
                /\ conv' = [conv EXCEPT ![a].bc = "BC_TEXT"]
                /\ Say(a, "bc_ask_text", 0)
                /\ outbox' = {}
                /\ UNCHANGED <<store, reg_buttons, wins, applied, notices>>
                /\ wrote' = [wrote EXCEPT ![a].bc = FALSE]
                /\ UNCHANGED entered

broadcast_text(a, t, marker) ==
    /\ t # "/skip"
    /\ conv[a].bc = "BC_TEXT"
    /\ TextTaker(a) = "bc"
    /\ user_data' = [user_data EXCEPT ![a].bc_text = t]
    /\ conv' = [conv EXCEPT ![a].bc = "BC_CONFIRM"]
    /\ users' = hm_users(a, t)
    /\ reg_buttons' = hm_buttons(a, t, marker)
    /\ SayBoth(a, "bc_confirm_prompt", 0, t, marker)
    /\ outbox' = {}
    /\ UNCHANGED <<events, registrations, info, requests, grants, wins, applied, notices>>
    /\ wrote' = [wrote EXCEPT ![a].bc = @ \/ hm_users(a, t) # users]
    /\ UNCHANGED entered

\* the buttons "bc_confirm:yes" / "bc_confirm:no"; ok: deliveries that succeed
broadcast_confirm(a, yes, ok) ==
    /\ conv[a].bc = "BC_CONFIRM"
    /\ conv' = [conv EXCEPT ![a].bc = END]
    /\ UNCHANGED <<store, user_data, reg_buttons, wins, applied, notices, wrote, entered>>
    /\ IF ~yes
       THEN /\ Say(a, "bc_cancelled", 0)
            /\ outbox' = {}
       ELSE LET res == send_all(IdList(get_all_telegram_ids), ok)
            IN  /\ outbox' = BroadcastTo(res.delivered)
                /\ SayLoop(a, "bc_sent", res.sent, res)

broadcast_cancel(a) ==
    /\ CancelTaker(a) = "bc"
    /\ conv' = [conv EXCEPT ![a].bc = END]
    /\ Say(a, "bc_cancelled", 0)
    /\ outbox' = {}
    /\ UNCHANGED <<store, user_data, reg_buttons, hist>>

\* ------------------------------------------------------------------ specifications

\* The store after the bootstrap of bot.py post_init: the configured first
\* super-admin has sent /start and has been given the role.
Init ==
    /\ users = (1 :> [telegram_id |-> 1, username |-> "sa", full_name |-> "Sam",
                      phone |-> None, role |-> SUPER_ADMIN])
    /\ events = <<>>
    /\ registrations = {}
    /\ info = <<>>
    /\ requests = <<>>
    /\ grants = {}
    /\ user_data = [a \in Actors |-> EmptyUserData]
    /\ conv = [a \in Actors |-> NoConv]
    /\ reg_buttons = [a \in Actors |-> {}]
    /\ reply = [to |-> 0, text |-> "none", ref |-> 0, qa |-> "none", loop |-> NoFanout]
    /\ outbox = {}
    /\ wins = <<>>
    /\ applied = <<>>
    /\ notices = <<>>
    /\ wrote = [a \in Actors |-> NoWrites]
    /\ entered = [a \in Actors |-> {}]

\* An event an earlier text command of the first super-admin left pending:
\* text_cmd_confirm creates the event and no request. The three accounts have
\* met the bot.
ParsedEvent(max_participants, status, created_by) ==
    [title |-> "parsed", date_start |-> "parsed", time |-> None, place |-> None,
     description |-> None, max_participants |-> max_participants, status |-> status,
     created_by |-> created_by]

InitApproval ==
    /\ users = [a \in Actors |->
                  [telegram_id |-> a, username |-> TgUsername(a),
                   full_name |-> TgFullName(a), phone |-> None,
                   role |-> IF a = 1 THEN SUPER_ADMIN ELSE USER]]
    /\ events = <<ParsedEvent(0, EV_PENDING, "sa")>>
    /\ registrations = {}
    /\ info = <<>>
    /\ requests = <<>>
    /\ grants = {}
    /\ user_data = [a \in Actors |-> EmptyUserData]
    /\ conv = [a \in Actors |-> NoConv]
    /\ reg_buttons = [a \in Actors |-> {}]
    /\ reply = [to |-> 0, text |-> "none", ref |-> 0, qa |-> "none", loop |-> NoFanout]
    /\ outbox = {}
    /\ wins = <<>>
    /\ applied = <<>>
    /\ notices = <<>>
    /\ wrote = [a \in Actors |-> NoWrites]
    /\ entered = [a \in Actors |-> {}]

\* The approval workflow: accounts 2 and 3 ask for admin rights, account 2 as an
\* admin asks for the activation of an event, and accounts 1 and 2 decide.
NextApproval ==
    \/ \E a \in {2, 3}, ok \in Deliveries : cmd_apply_admin(a, ok)
    \/ \E a \in {1, 2} :
        \/ \E r \in {ADMIN, SUPER_ADMIN} : cmd_set_role(a, "bob", r)
        \/ \E e \in EventIds : admin_callback(a, "event_activate", e, Actors)
        \/ \E act \in {"approve", "reject"}, rid \in 1..MaxRequests :
              \/ handle_request_decision(a, act, rid, FALSE, Actors)
              \/ \* a failing delivery or store operation: met only by an attempt that wins
                 /\ rid \in get_pending_requests
                 /\ \/ handle_request_decision(a, act, rid, FALSE, {})
                    \/ handle_request_decision(a, act, rid, TRUE, Actors)

SpecApproval == InitApproval /\ [][NextApproval]_vars

\* ------------------------------------------------------------------ claims: approval

WinsOf(r) == {i \in 1..Len(wins) : wins[i].request_id = r}

Outcome(action) == IF action = "approve" THEN RQ_APPROVED ELSE RQ_REJECTED

\* the update handled in this step came from account a
By(a) == reply'.to = a

\* a decision attempt of a super-admin a: the update reaches the handler body
DecisionAttempt(a, act, rid) ==
    /\ By(a)
    /\ reply'.ref = rid
    /\ require_role(a, {SUPER_ADMIN}) = "ok"
    /\ \E f \in BOOLEAN, ok \in Deliveries : handle_request_decision(a, act, rid, f, ok)

StillPending(rid) == rid \in RequestIds /\ requests[rid].status = RQ_PENDING

C1_OneWinner ==
    \A r \in RequestIds :
        /\ requests[r].status = RQ_PENDING => WinsOf(r) = {}
        /\ requests[r].status # RQ_PENDING =>
              /\ Cardinality(WinsOf(r)) = 1
              /\ \A i \in WinsOf(r) :
                    /\ requests[r].status = Outcome(wins[i].action)
                    /\ requests[r].reviewed_by = TgUsername(wins[i].reviewer)

C1_AttemptStep ==
    \A a \in Actors, act \in {"approve", "reject"}, rid \in 1..MaxRequests :
        DecisionAttempt(a, act, rid) =>
            IF StillPending(rid)
            THEN /\ requests'[rid].status = Outcome(act)
                 /\ wins' = Append(wins, [request_id |-> rid, action |-> act,
                                          reviewer |-> a])
            ELSE /\ reply' = [to |-> a, text |-> "already_handled", ref |-> rid,
                              qa |-> "none", loop |-> NoFanout]
                 /\ wins' = wins
                 /\ requests' = requests

\* C1: of all approve/reject attempts on a request exactly one succeeds, the first
\* one whose conditional update runs; every other attempt is told "already handled",
\* and the request's status is the outcome of the attempt that succeeded.
C1_ExactlyOneDecisionWins == []C1_OneWinner /\ [][C1_AttemptStep]_vars

\* C1 witness: two super-admins, a decided request, and a later attempt on it
\* that was told "already handled".
C1_Witness ==
    /\ Cardinality(get_super_admin_ids) >= 2
    /\ reply.text = "already_handled"
    /\ reply.ref \in RequestIds
    /\ requests[reply.ref].status # RQ_PENDING
    /\ \E i \in WinsOf(reply.ref) : wins[i].reviewer # reply.to

\* C2: every approved request has had its side effect applied exactly once,
\* also when a store operation of the side effect fails after the status update.
C2_ApprovedAppliedExactlyOnce ==
    \A r \in RequestIds : requests[r].status = RQ_APPROVED => applied[r] = 1

C3_LosingStep ==
    \A a \in Actors, act \in {"approve", "reject"}, rid \in 1..MaxRequests :
        (DecisionAttempt(a, act, rid) /\ ~StillPending(rid)) =>
            /\ UNCHANGED <<users, events, registrations, info, requests, grants>>
            /\ UNCHANGED <<applied, notices>>
            /\ outbox' = {}

C3_OneNotice ==
    /\ \A i, j \in 1..Len(notices) : notices[i].request_id = notices[j].request_id => i = j
    /\ \A i \in 1..Len(notices) :
          requests[notices[i].request_id].status = Outcome(notices[i].outcome)

\* C3: a decision attempt that does not win changes no request, user, event or grant
\* and sends nothing; so a requester gets at most one decision notice per request,
\* and the notice names the request's final status.
C3_LoserChangesNothing == []C3_OneNotice /\ [][C3_LosingStep]_vars

\* C3 witness: a request whose notice was delivered, and a later attempt on it that lost.
C3_Witness ==
    /\ reply.text = "already_handled"
    /\ \E i \in 1..Len(notices) : notices[i].request_id = reply.ref
    /\ outbox = {}

C4_Step ==
    /\ Len(requests') >= Len(requests)
    /\ \A r \in RequestIds :
          /\ requests[r].status # RQ_PENDING => requests'[r].status = requests[r].status
          /\ requests'[r].status \in {requests[r].status, RQ_APPROVED, RQ_REJECTED}
    /\ \A r \in 1..Len(requests') : r \notin RequestIds => requests'[r].status = RQ_PENDING

\* C4: a request is created pending, leaves pending only to approved or rejected,
\* and once approved or rejected never changes its status again.
C4_DecisionIsTerminal == [][C4_Step]_vars

\* C4 witness: a rejected request on which an approval was attempted afterwards.
C4_Witness ==
    /\ reply.text = "already_handled"
    /\ reply.ref \in RequestIds
    /\ requests[reply.ref].status = RQ_REJECTED
    /\ \E i \in WinsOf(reply.ref) : wins[i].action = "reject"


\* ------------------------------------------------------------------ registration

\* what accounts type into the registration flow
RegTexts == {"/skip", "x"}

\* The three accounts have met the bot; an event the super-admin created by text
\* command is active, unlimited or with one place.
InitReg ==
    /\ users = [a \in Actors |->
                  [telegram_id |-> a, username |-> TgUsername(a),
                   full_name |-> TgFullName(a), phone |-> None,
                   role |-> IF a = 1 THEN SUPER_ADMIN ELSE USER]]
    /\ \E m \in {0, 1} : events = <<ParsedEvent(m, EV_ACTIVE, "sa")>>
    /\ registrations = {}
    /\ info = <<>>
    /\ requests = <<>>
    /\ grants = {}
    /\ user_data = [a \in Actors |-> EmptyUserData]
    /\ conv = [a \in Actors |-> NoConv]
    /\ reg_buttons = [a \in Actors |-> {}]
    /\ reply = [to |-> 0, text |-> "none", ref |-> 0, qa |-> "none", loop |-> NoFanout]
    /\ outbox = {}
    /\ wins = <<>>
    /\ applied = <<>>
    /\ notices = <<>>
    /\ wrote = [a \in Actors |-> NoWrites]
    /\ entered = [a \in Actors |-> {}]

\* Accounts 2 and 3 look at the events and register; the super-admin archives.
NextReg ==
    \/ \E e \in EventIds : admin_callback(1, "event_archive", e, Actors)
    \/ \E a \in {2, 3} :
        \/ cmd_events(a)
        \/ \E e \in EventIds : reg_start(a, e)
        \/ \E t \in RegTexts : ask_name(a, t, FALSE)
        \/ \E t \in RegTexts : ask_phone(a, t, FALSE)
        \/ ask_level(a, "/skip", FALSE)
        \/ \E yes \in BOOLEAN : confirm(a, yes)
        \/ cancel(a)

SpecReg == InitReg /\ [][NextReg]_vars

HoldsRegistration(a, e) ==
    \E r \in registrations : r.event_id = e /\ r.telegram_id = a

RowsOf(tbl, a, e) == {r \in tbl : r.event_id = e /\ r.telegram_id = a}

C6_Step ==
    \A a \in Actors :
        LET e == user_data[a].reg_event_id
            ud == user_data[a]
        IN  (By(a) /\ HoldsRegistration(a, e) /\ confirm(a, TRUE)) =>
                /\ Cardinality(RowsOf(registrations', a, e)) = 1
                /\ Cardinality({r \in registrations' : r.event_id = e})
                      = count_event_registrations(e)
                /\ \A r \in RowsOf(registrations', a, e) :
                      /\ r.full_name = IF ud.reg_name = Missing THEN TgFullName(a)
                                       ELSE ud.reg_name
                      /\ r.phone = ud_get(ud.reg_phone)
                      /\ r.level = ud_get(ud.reg_level)

C6_OnePerPair ==
    \A a \in Actors, e \in EventIds : Cardinality(RowsOf(registrations, a, e)) <= 1

\* C6: committing a registration again for the same (event, account) updates the
\* row in place: there is still one row for the pair, the event's count is what
\* it was, and name, phone and level are the ones of the second commit.
C6_SecondCommitUpdatesInPlace == []C6_OnePerPair /\ [][C6_Step]_vars

\* C6 witness: the account that committed last holds a row older than another
\* account's row of the same event, so its last commit was a second one.
C6_Witness ==
    /\ reply.text = "registered"
    /\ \E r \in registrations, q \in registrations :
          /\ r.telegram_id = reply.to /\ r.event_id = reply.ref
          /\ q.event_id = reply.ref /\ q.id > r.id

C7_Step ==
    \A a \in Actors, e \in EventIds :
        (/\ By(a)
         /\ events[e].max_participants > 0
         /\ count_event_registrations(e) >= events[e].max_participants
         /\ ~HoldsRegistration(a, e)
         /\ reg_start(a, e)) =>
            /\ reply' = [to |-> a, text |-> "event_full", ref |-> e, qa |-> "none", loop |-> NoFanout]
            /\ conv'[a].reg = END
            /\ registrations' = registrations

\* C7: when an event with max_participants = N > 0 has N registrations, the attempt
\* of a further account is answered with the capacity message, the conversation
\* ends at once and no registration is created.
C7_FullEventRejectsNewcomer == [][C7_Step]_vars

\* C7 witness: an account without a registration was told that the event is full.
C7_Witness ==
    /\ reply.text = "event_full"
    /\ reply.ref \in EventIds
    /\ ~HoldsRegistration(reply.to, reply.ref)
    /\ count_event_registrations(reply.ref) = events[reply.ref].max_participants
    /\ conv[reply.to].reg = END

C8_Step ==
    \A a \in Actors, e \in EventIds :
        (/\ By(a)
         /\ events[e].max_participants > 0
         /\ count_event_registrations(e) >= events[e].max_participants
         /\ HoldsRegistration(a, e)
         /\ reg_start(a, e)) =>
            conv'[a].reg = "ASK_NAME"

\* C8: when an event with max_participants = N > 0 has N registrations, an account
\* that holds one of them may register again: the flow starts.
C8_RegistrantMayReRegister == [][C8_Step]_vars

C9_Step ==
    \A a \in Actors, e \in EventIds :
        (By(a) /\ events[e].status # EV_ACTIVE /\ reg_start(a, e)) =>
            /\ conv'[a].reg = END
            /\ UNCHANGED user_data

\* C9: a registration flow started for an event that is not active (from a stale
\* registration button, say) is not entered.
C9_OnlyActiveEventsRegisterable == [][C9_Step]_vars


\* ------------------------------------------------------------------ role gating

\* The three accounts have met the bot: 1 is the super-admin, 2 and 3 are users;
\* an event and an info snippet made by text command of the super-admin exist.
InitGuard ==
    /\ users = [a \in Actors |->
                  [telegram_id |-> a, username |-> TgUsername(a),
                   full_name |-> TgFullName(a), phone |-> None,
                   role |-> IF a = 1 THEN SUPER_ADMIN ELSE USER]]
    /\ events = <<ParsedEvent(0, EV_PENDING, "sa")>>
    /\ registrations = {}
    /\ info = <<[category |-> "parsed", title |-> "parsed", content |-> "parsed",
                 present |-> TRUE]>>
    /\ requests = <<>>
    /\ grants = {}
    /\ user_data = [a \in Actors |-> EmptyUserData]
    /\ conv = [a \in Actors |-> NoConv]
    /\ reg_buttons = [a \in Actors |-> {}]
    /\ reply = [to |-> 0, text |-> "none", ref |-> 0, qa |-> "none", loop |-> NoFanout]
    /\ outbox = {}
    /\ wins = <<>>
    /\ applied = <<>>
    /\ notices = <<>>
    /\ wrote = [a \in Actors |-> NoWrites]
    /\ entered = [a \in Actors |-> {}]

\* the entry points behind require_role(ADMIN, SUPER_ADMIN)
AdminEntry(a) ==
    \/ cmd_admin(a)
    \/ \E b \in PanelButtons : admin_callback(a, b, 1, Actors)
    \/ evt_start(a)
    \/ info_start(a)
    \/ text_cmd_start(a)

\* the entry points behind require_role(SUPER_ADMIN)
SuperEntry(a) ==
    \/ \E act \in {"approve", "reject"} : handle_request_decision(a, act, 1, FALSE, Actors)
    \/ cmd_pending(a)
    \/ broadcast_start(a)
    \/ \E r \in UserRole : cmd_set_role(a, "bob", r)

\* Account 2 tries every guarded entry point and cancels the flows it started;
\* the first super-admin sets the role of account 2, account 3 asks for admin rights.
NextGuard ==
    \/ AdminEntry(2)
    \/ SuperEntry(2)
    \/ evt_cancel(2)
    \/ info_cancel(2)
    \/ text_cmd_cancel(2)
    \/ broadcast_cancel(2)
    \/ \E r \in UserRole : cmd_set_role(1, "bob", r)
    \/ cmd_apply_admin(3, Actors)

SpecGuard == InitGuard /\ [][NextGuard]_vars

RefusedStep(a) ==
    /\ reply' = [to |-> a, text |-> "no_access", ref |-> 0, qa |-> "none", loop |-> NoFanout]
    /\ UNCHANGED store
    /\ UNCHANGED conv
    /\ outbox' = {}

Proceeds == reply'.text \notin {"no_access", "register_first"}

\* "entry point => outcome", written outcome first
C5_Step ==
    \A a \in DOMAIN users :
        By(a) =>
            CASE users[a].role = USER ->
                    RefusedStep(a) \/ ~(AdminEntry(a) \/ SuperEntry(a))
              [] users[a].role = ADMIN ->
                    /\ RefusedStep(a) \/ ~SuperEntry(a)
                    /\ Proceeds \/ ~AdminEntry(a)
              [] OTHER ->
                    Proceeds \/ ~(AdminEntry(a) \/ SuperEntry(a))

\* C5: an account whose stored role is user is refused at every admin-only and
\* super-admin-only entry point, an admin at every super-admin-only one, and
\* the refused update changes no record of the store; with an allowed role the
\* same entry point proceeds.
C5_RoleGating == [][C5_Step]_vars

\* C5 witness: an admin was refused at a super-admin-only entry point while a
\* request is pending and an admin flow of that admin is under way.
C5_Witness ==
    /\ reply.text = "no_access"
    /\ reply.to \in DOMAIN users
    /\ users[reply.to].role = ADMIN
    /\ conv[reply.to].evt # END
    /\ get_pending_requests # {}


\* ------------------------------------------------------------------ flows

\* what the LLM makes of the text of an admin command
ParseResults == {UnknownCmd,
                 [action |-> "create_event", event_id |-> 0, max_participants |-> 1]}

\* The first super-admin has met the bot, account 3 has not; an event the
\* super-admin created by text command is active.
InitFlows ==
    /\ users = (1 :> [telegram_id |-> 1, username |-> "sa", full_name |-> "Sam",
                      phone |-> None, role |-> SUPER_ADMIN])
    /\ events = <<ParsedEvent(0, EV_ACTIVE, "sa")>>
    /\ registrations = {}
    /\ info = <<>>
    /\ requests = <<>>
    /\ grants = {}
    /\ user_data = [a \in Actors |-> EmptyUserData]
    /\ conv = [a \in Actors |-> NoConv]
    /\ reg_buttons = [a \in Actors |-> {}]
    /\ reply = [to |-> 0, text |-> "none", ref |-> 0, qa |-> "none", loop |-> NoFanout]
    /\ outbox = {}
    /\ wins = <<>>
    /\ applied = <<>>
    /\ notices = <<>>
    /\ wrote = [a \in Actors |-> NoWrites]
    /\ entered = [a \in Actors |-> {}]

\* no conversation is active
Idle == \A b \in Actors : conv[b] = NoConv

\* the registration flow of account a
RegFlow(a) ==
    \/ cmd_events(a)
    \/ Idle /\ \E e \in EventIds : reg_start(a, e)
    \/ \E t \in RegTexts : ask_name(a, t, FALSE)
    \/ ask_phone(a, "/skip", FALSE)
    \/ ask_level(a, "/skip", FALSE)
    \/ \E yes \in BOOLEAN : confirm(a, yes)
    \/ cancel(a)

\* the flows of the admin panel and the broadcast flow of account a
AdminFlows(a) ==
    \/ Idle /\ evt_start(a)
    \/ evt_title(a, "x", FALSE)
    \/ \E t \in {"x"} \cup DateTexts : evt_date(a, t, FALSE)
    \/ evt_time(a, "/skip", FALSE)
    \/ evt_place(a, "/skip", FALSE)
    \/ evt_desc(a, "/skip", FALSE)
    \/ evt_max(a, "1", FALSE)
    \/ \E yes \in BOOLEAN : evt_confirm(a, yes, Actors)
    \/ evt_cancel(a)
    \/ Idle /\ info_start(a)
    \/ info_category(a, "x", FALSE)
    \/ info_title(a, "x", FALSE)
    \/ info_content(a, "x", FALSE)
    \/ \E yes \in BOOLEAN : info_confirm(a, yes)
    \/ info_cancel(a)
    \/ Idle /\ text_cmd_start(a)
    \/ \E result \in ParseResults : text_cmd_parse(a, "x", result, FALSE)
    \/ \E yes \in BOOLEAN : text_cmd_confirm(a, yes)
    \/ text_cmd_cancel(a)
    \/ Idle /\ broadcast_start(a)
    \/ broadcast_text(a, "x", FALSE)
    \/ \E yes \in BOOLEAN : broadcast_confirm(a, yes, Actors)
    \/ broadcast_cancel(a)

\* The super-admin works through the flows of the panel, account 3 registers;
\* a flow is started when no other flow is under way.
NextFlows == AdminFlows(1) \/ RegFlow(3)

SpecFlows == InitFlows /\ [][NextFlows]_vars

\* account a leaves its flow of kind k by /cancel or by declining at the confirm step
LeavesFlow(a, k) ==
    CASE k = "reg" -> cancel(a) \/ confirm(a, FALSE)
      [] k = "evt" -> evt_cancel(a) \/ evt_confirm(a, FALSE, Actors)
      [] k = "info" -> info_cancel(a) \/ info_confirm(a, FALSE)
      [] k = "ai" -> text_cmd_cancel(a) \/ text_cmd_confirm(a, FALSE)
      [] OTHER -> broadcast_cancel(a) \/ broadcast_confirm(a, FALSE, Actors)

C10_Step ==
    \A a \in Actors, k \in {"reg", "evt", "info", "ai", "bc"} :
        (By(a) /\ LeavesFlow(a, k)) =>
            /\ ~wrote[a][k]
            /\ UNCHANGED store
            /\ outbox' = {}

\* C10: a flow that is left by /cancel or by declining at its confirm step has
\* changed no record of the store since it started, and sends no broadcast.
C10_CancelledFlowLeavesStore == [][C10_Step]_vars

\* ------------------------------------------------------------------ collected fields

\* The super-admin and account 2 have met the bot, account 3 has not; two events
\* the super-admin created by text command are active and unlimited.
InitFields ==
    /\ users = [a \in {1, 2} |->
                  [telegram_id |-> a, username |-> TgUsername(a),
                   full_name |-> TgFullName(a), phone |-> None,
                   role |-> IF a = 1 THEN SUPER_ADMIN ELSE USER]]
    /\ events = <<ParsedEvent(0, EV_ACTIVE, "sa"), ParsedEvent(0, EV_ACTIVE, "sa")>>
    /\ registrations = {}
    /\ info = <<>>
    /\ requests = <<>>
    /\ grants = {}
    /\ user_data = [a \in Actors |-> EmptyUserData]
    /\ conv = [a \in Actors |-> NoConv]
    /\ reg_buttons = [a \in Actors |-> {}]
    /\ reply = [to |-> 0, text |-> "none", ref |-> 0, qa |-> "none", loop |-> NoFanout]
    /\ outbox = {}
    /\ wins = <<>>
    /\ applied = <<>>
    /\ notices = <<>>
    /\ wrote = [a \in Actors |-> NoWrites]
    /\ entered = [a \in Actors |-> {}]

\* Account 3 registers for the events, again and again, typing or skipping each
\* field; it may send /start at any moment.
NextFields ==
    \/ cmd_start(3)
    \/ cmd_events(3)
    \/ \E e \in EventIds : reg_start(3, e)
    \/ \E t \in RegTexts : ask_name(3, t, FALSE)
    \/ \E t \in RegTexts : ask_phone(3, t, FALSE)
    \/ \E t \in RegTexts : ask_level(3, t, FALSE)
    \/ \E yes \in BOOLEAN : confirm(3, yes)
    \/ cancel(3)

SpecFields == InitFields /\ [][NextFields]_vars

\* the values a registration row takes when the account typed nothing
NameDefaults(a) ==
    {TgFullName(a)} \cup (IF a \in DOMAIN users THEN {users[a].full_name} ELSE {})

C11_Step ==
    \A a \in Actors :
        (By(a) /\ reply'.text = "registered") =>
            \A r \in registrations' :
                (r.telegram_id = a /\ r.event_id = reply'.ref) =>
                    /\ r.full_name \in NameDefaults(a) \/ "reg_name" \in entered[a]
                    /\ r.phone = None \/ "reg_phone" \in entered[a]
                    /\ r.level = None \/ "reg_level" \in entered[a]

\* C11: the record a registration flow commits holds, in each field, what the
\* account typed in that flow or the default of the field (the account's own name,
\* no phone, no level): nothing typed in an earlier flow that ended by /cancel,
\* decline or commit reaches the record of a later flow.
C11_CommitHoldsOnlyOwnFields == [][C11_Step]_vars

\* an account that committed a phone and a level for event 1 has just committed
\* a later flow, for event 2, in which it skipped both
C11_Witness ==
    \E a \in Actors :
        /\ reply.to = a /\ reply.text = "registered" /\ reply.ref = 2
        /\ \E r \in registrations :
              r.telegram_id = a /\ r.event_id = 1 /\ r.phone = "x" /\ r.level = "x"
        /\ \E r \in registrations :
              r.telegram_id = a /\ r.event_id = 2 /\ r.phone = None /\ r.level = None

\* ------------------------------------------------------------------ broadcast

\* The super-admin has met the bot, accounts 2 and 3 have not yet. A request of
\* type broadcast is pending: admin_requests admits it (request_type is free text,
\* telegram_id may be NULL) and _apply_approval serves it.
InitBroadcast ==
    /\ users = [a \in {1} |->
                  [telegram_id |-> a, username |-> TgUsername(a),
                   full_name |-> TgFullName(a), phone |-> None, role |-> SUPER_ADMIN]]
    /\ events = <<>>
    /\ registrations = {}
    /\ info = <<>>
    /\ requests = <<[username |-> "bob", telegram_id |-> 0, request_type |-> "broadcast",
                     requested_table |-> None,
                     payload_json |-> [event_id |-> 0, message |-> "x"],
                     status |-> RQ_PENDING, reviewed_by |-> None]>>
    /\ grants = {}
    /\ user_data = [a \in Actors |-> EmptyUserData]
    /\ conv = [a \in Actors |-> NoConv]
    /\ reg_buttons = [a \in Actors |-> {}]
    /\ reply = [to |-> 0, text |-> "none", ref |-> 0, qa |-> "none", loop |-> NoFanout]
    /\ outbox = {}
    /\ wins = <<>>
    /\ applied = <<>>
    /\ notices = <<>>
    /\ wrote = [a \in Actors |-> NoWrites]
    /\ entered = [a \in Actors |-> {}]

\* Accounts 2 and 3 send /start; the super-admin broadcasts and decides the
\* request; any set of deliveries fails.
NextBroadcast ==
    \/ \E a \in {2, 3} : cmd_start(a)
    \/ broadcast_start(1)
    \/ broadcast_text(1, "x", FALSE)
    \/ \E yes \in BOOLEAN, ok \in SUBSET Actors : broadcast_confirm(1, yes, ok)
    \/ broadcast_cancel(1)
    \/ \E act \in {"approve", "reject"}, ok \in SUBSET Actors :
          handle_request_decision(1, act, 1, FALSE, ok)

SpecBroadcast == InitBroadcast /\ [][NextBroadcast]_vars

\* what a broadcast over the known identities has to leave when the deliveries
\* to the accounts outside ok fail
FanoutDone(ok) ==
    LET R == get_all_telegram_ids
        k == Cardinality(R \ ok)
        f == reply'.loop
    IN  /\ Len(f.tried) = Cardinality(R)
        /\ \A t \in R : \E i \in 1..Len(f.tried) : f.tried[i] = t
        /\ f.sent = Cardinality(R) - k
        /\ f.total = Cardinality(R)
        /\ {o \in outbox' : o.kind = "broadcast"} = BroadcastTo(R \cap ok)

C12_Step ==
    \A ok \in SUBSET Actors :
        /\ (By(1) /\ reply'.text = "bc_sent" /\ broadcast_confirm(1, TRUE, ok)) =>
              (FanoutDone(ok) /\ reply'.ref = reply'.loop.sent)
        /\ (By(1) /\ reply'.text = "approve"
                  /\ handle_request_decision(1, "approve", 1, FALSE, ok)) =>
              FanoutDone(ok)

\* C12: a broadcast over the recipients R of which k deliveries fail tries every
\* recipient exactly once wherever the failures are, and counts sent = |R| - k of
\* total = |R|; so does the confirmed broadcast of the super-admin and so does the
\* broadcast of an approved broadcast request.
C12_BroadcastReachesEveryRecipient == [][C12_Step]_vars

\* the approval of the broadcast request has tried the three accounts in turn
\* although the first and the second delivery failed
C12_Witness ==
    /\ reply.text = "approve"
    /\ reply.loop.tried = <<1, 2, 3>>
    /\ reply.loop.delivered = {3}
    /\ reply.loop.sent = 1 /\ reply.loop.total = 3
    /\ outbox = BroadcastTo({3})

\* ------------------------------------------------------------------ event creation

\* The three accounts have met the bot; the super-admin has made bob an admin
\* with /set_role. There is no event yet.
InitCreate ==
    /\ users = [a \in Actors |->
                  [telegram_id |-> a, username |-> TgUsername(a),
                   full_name |-> TgFullName(a), phone |-> None,
                   role |-> CASE a = 1 -> SUPER_ADMIN [] a = 2 -> ADMIN [] OTHER -> USER]]
    /\ events = <<>>
    /\ registrations = {}
    /\ info = <<>>
    /\ requests = <<>>
    /\ grants = {}
    /\ user_data = [a \in Actors |-> EmptyUserData]
    /\ conv = [a \in Actors |-> NoConv]
    /\ reg_buttons = [a \in Actors |-> {}]
    /\ reply = [to |-> 0, text |-> "none", ref |-> 0, qa |-> "none", loop |-> NoFanout]
    /\ outbox = {}
    /\ wins = <<>>
    /\ applied = <<>>
    /\ notices = <<>>
    /\ wrote = [a \in Actors |-> NoWrites]
    /\ entered = [a \in Actors |-> {}]

\* bob opens the panel and goes through the event-creation flow; bob and the
\* super-admin press the activate button of an event; the super-admin sets bob's
\* role and decides requests.
NextCreate ==
    \/ cmd_admin(2)
    \/ evt_start(2)
    \/ evt_title(2, "x", FALSE)
    \/ \E t \in DateTexts : evt_date(2, t, FALSE)
    \/ evt_time(2, "/skip", FALSE)
    \/ evt_place(2, "/skip", FALSE)
    \/ evt_desc(2, "/skip", FALSE)
    \/ evt_max(2, "/skip", FALSE)
    \/ \E yes \in BOOLEAN : evt_confirm(2, yes, Actors)
    \/ evt_cancel(2)
    \/ \E a \in {1, 2}, e \in EventIds : admin_callback(a, "event_activate", e, Actors)
    \/ \E r \in {USER, ADMIN, SUPER_ADMIN} : cmd_set_role(1, "bob", r)
    \/ \E act \in {"approve", "reject"}, rid \in 1..MaxRequests :
          handle_request_decision(1, act, rid, FALSE, Actors)

SpecCreate == InitCreate /\ [][NextCreate]_vars

\* the step stored one new event, pending, and one new request of type
\* event_creation, pending, whose payload holds the id of that event
FiledForApproval ==
    LET e == Len(events) + 1
        r == Len(requests) + 1
    IN  /\ Len(events') = e
        /\ \A i \in EventIds : events'[i] = events[i]
        /\ events'[e].status = EV_PENDING
        /\ Len(requests') = r
        /\ \A i \in RequestIds : requests'[i] = requests[i]
        /\ requests'[r].request_type = "event_creation"
        /\ requests'[r].status = RQ_PENDING
        /\ requests'[r].payload_json.event_id = e

\* the step is the answer to account a's "evt_confirm:yes"
ConfirmsEvent(a) ==
    /\ By(a)
    /\ reply'.text \in {"evt_created_pending", "evt_created_active"}

\* the step is a super-admin's approval of a request that names event e, or a
\* super-admin's press of the activate button of e
ActivatedBySuperAdmin(e) ==
    /\ reply'.to \in DOMAIN users /\ users[reply'.to].role = SUPER_ADMIN
    /\ \/ reply'.text = "event_activated" /\ reply'.ref = e
       \/ /\ reply'.text = "approve"
          /\ reply'.ref \in RequestIds
          /\ requests[reply'.ref].payload_json.event_id = e

C13_StatedStep ==
    \A a \in Actors :
        (ConfirmsEvent(a) /\ users[a].role = ADMIN) => FiledForApproval

\* C13 as stated: when an account whose role is admin confirms the event-creation
\* flow, one pending event and one pending event_creation request naming it are
\* created.
C13_AdminConfirmFilesRequest == [][C13_StatedStep]_vars

C13_Step ==
    /\ \A a \in Actors :
          (ConfirmsEvent(a) /\ user_data[a].db_user.role = ADMIN) => FiledForApproval
    /\ \A e \in EventIds :
          (events[e].status = EV_PENDING /\ events'[e].status = EV_ACTIVE) =>
              ActivatedBySuperAdmin(e)

\* C13: when an account whose identity, as the role guard last cached it, has role
\* admin confirms the event-creation flow, one pending event and one pending
\* event_creation request naming it are created; a pending event becomes active only
\* by a super-admin's approval of a request that names it or a super-admin's press
\* of its activate button.
C13_CachedAdminConfirmFilesRequest == [][C13_Step]_vars

\* bob, an admin, has just confirmed: event 1 is pending and request 1 asks for it
C13_Witness ==
    /\ reply.to = 2 /\ reply.text = "evt_created_pending" /\ reply.ref = 1
    /\ users[2].role = ADMIN /\ user_data[2].db_user.role = ADMIN
    /\ events[1].status = EV_PENDING
    /\ requests[1].request_type = "event_creation"
    /\ requests[1].status = RQ_PENDING
    /\ requests[1].payload_json.event_id = 1

\* the event a request names, 0 when it names none
EventOf(rid) == requests[rid].payload_json.event_id

C14_Step ==
    \A a \in Actors, rid \in RequestIds :
        (/\ By(a) /\ reply'.ref = rid
         /\ handle_request_decision(a, "approve", rid, FALSE, Actors)) =>
            IF requests[rid].status = RQ_PENDING
            THEN /\ requests'[rid].status = RQ_APPROVED
                 /\ (/\ requests[rid].request_type \in {"event_creation", "event_activation"}
                     /\ EventOf(rid) \in EventIds
                     /\ events[EventOf(rid)].status = EV_PENDING) =>
                        events'[EventOf(rid)].status = EV_ACTIVE
            ELSE /\ reply'.text = "already_handled"
                 /\ UNCHANGED store
                 /\ outbox' = {}

\* C14: an approval by a super-admin that runs to its end on a pending
\* event_creation or event_activation request naming a pending event leaves the
\* event active and the request approved; an approval attempt on a request that is
\* no longer pending is answered "already handled" and changes no record.
C14_ApprovalActivatesEvent == [][C14_Step]_vars

\* request 1, which named event 1, is approved, the event is active, and a
\* further attempt on the request has just been answered "already handled"
C14_Witness ==
    /\ reply.text = "already_handled" /\ reply.ref = 1
    /\ Len(requests) >= 1
    /\ requests[1].status = RQ_APPROVED
    /\ requests[1].request_type \in {"event_creation", "event_activation"}
    /\ EventOf(1) = 1
    /\ events[1].status = EV_ACTIVE
    /\ applied[1] = 1

\* ------------------------------------------------------------------ event lifecycle

\* The accounts have met the bot, bob is an admin; an event created by text
\* command is pending, and its detail message, with the activate button, is in
\* the chats of bob and of the super-admin.
InitLifecycle ==
    /\ users = [a \in Actors |->
                  [telegram_id |-> a, username |-> TgUsername(a),
                   full_name |-> TgFullName(a), phone |-> None,
                   role |-> CASE a = 1 -> SUPER_ADMIN [] a = 2 -> ADMIN [] OTHER -> USER]]
    /\ events = <<ParsedEvent(0, EV_PENDING, "bob")>>
    /\ registrations = {}
    /\ info = <<>>
    /\ requests = <<>>
    /\ grants = {}
    /\ user_data = [a \in Actors |-> EmptyUserData]
    /\ conv = [a \in Actors |-> NoConv]
    /\ reg_buttons = [a \in Actors |-> {}]
    /\ reply = [to |-> 0, text |-> "none", ref |-> 0, qa |-> "none", loop |-> NoFanout]
    /\ outbox = {}
    /\ wins = <<>>
    /\ applied = <<>>
    /\ notices = <<>>
    /\ wrote = [a \in Actors |-> NoWrites]
    /\ entered = [a \in Actors |-> {}]

\* bob and the super-admin open the panel and the event's detail and press its
\* buttons: the activate button, shown while the event was pending, and the archive
\* button, shown once it has been active; the super-admin sets bob's role and
\* decides requests.
NextLifecycle ==
    \/ \E a \in {1, 2} :
        \/ cmd_admin(a)
        \/ \E e \in EventIds :
            \/ admin_callback(a, "event_detail", e, Actors)
            \/ admin_callback(a, "event_activate", e, Actors)
            \/ events[e].status # EV_PENDING /\ admin_callback(a, "event_archive", e, Actors)
    \/ \E r \in {ADMIN, SUPER_ADMIN} : cmd_set_role(1, "bob", r)
    \/ \E act \in {"approve", "reject"}, rid \in 1..MaxRequests :
          handle_request_decision(1, act, rid, FALSE, Actors)

SpecLifecycle == InitLifecycle /\ [][NextLifecycle]_vars

C15_Step ==
    \A e \in EventIds :
        \/ events'[e].status = events[e].status
        \/ events[e].status = EV_PENDING /\ events'[e].status = EV_ACTIVE
        \/ events[e].status = EV_ACTIVE /\ events'[e].status = EV_ARCHIVED

\* C15: the status of an event only moves from pending to active and from active
\* to archived; an archived event stays archived whatever is done.
C15_ArchivedIsTerminal == [][C15_Step]_vars

\* ------------------------------------------------------------------ roles

\* config.py: SUPER_ADMIN_USERNAME, the handle of the first super-admin
SUPER_ADMIN_USERNAME == "sa"

\* The process starts again over the same database: post_init runs its bootstrap;
\* conversations and user_data, which live in memory, start empty.
post_init ==
    /\ users' = IF \E t \in DOMAIN users : /\ users[t].username = SUPER_ADMIN_USERNAME
                                           /\ users[t].role # SUPER_ADMIN
                THEN set_user_role(SUPER_ADMIN_USERNAME, SUPER_ADMIN) ELSE users
    /\ user_data' = [a \in Actors |-> EmptyUserData]
    /\ conv' = [a \in Actors |-> NoConv]
    /\ reply' = [to |-> 0, text |-> "none", ref |-> 0, qa |-> "none", loop |-> NoFanout]
    /\ outbox' = {}
    /\ UNCHANGED <<events, registrations, info, requests, grants, reg_buttons, hist>>

\* Accounts 2 and 3 send /start and /apply_admin; the super-admin and bob send
\* /set_role and decide requests; the process may be started again.
NextRoles ==
    \/ post_init
    \/ \E a \in {2, 3} : cmd_start(a) \/ cmd_apply_admin(a, Actors)
    \/ \E a \in {1, 2} :
        \/ \E u \in {"sa", "bob"}, r \in UserRole : cmd_set_role(a, u, r)
        \/ \E act \in {"approve", "reject"}, rid \in 1..MaxRequests :
              handle_request_decision(a, act, rid, FALSE, Actors)

SpecRoles == Init /\ [][NextRoles]_vars

\* the step is a /set_role of a super-admin, or a super-admin's approval of an
\* admin_access request filed under the handle of identity t, which makes t an admin
RoleChangeAllowed(t) ==
    /\ reply'.to \in DOMAIN users
    /\ users[reply'.to].role = SUPER_ADMIN
    /\ \/ reply'.text = "role_changed"
       \/ /\ reply'.text = "approve"
          /\ reply'.ref \in RequestIds
          /\ requests[reply'.ref].request_type = "admin_access"
          /\ requests[reply'.ref].username = users[t].username
          /\ users'[t].role = ADMIN

C16_Step ==
    \A t \in DOMAIN users :
        (t \in DOMAIN users' /\ users'[t].role # users[t].role) => RoleChangeAllowed(t)

\* C16: the role of an identity changes only in a step that is a super-admin's
\* /set_role or a super-admin's approval of an admin_access request; nothing else
\* the program does changes a role.
C16_RoleChangesOnlyByApprovalOrOverride == [][C16_Step]_vars

\* ------------------------------------------------------------------ flows side by side

\* texts typed into the date state and the max-participants state: a word, a number
EvtTexts == {"x", "1"}

\* The super-admin presses the panel buttons that open the event flow and the info
\* flow, in any order and at any moment, types into them, confirms and cancels.
NextOverlap ==
    \/ evt_start(1)
    \/ evt_title(1, "x", FALSE)
    \/ \E t \in EvtTexts \cup DateTexts : evt_date(1, t, FALSE)
    \/ evt_time(1, "/skip", FALSE)
    \/ evt_place(1, "/skip", FALSE)
    \/ evt_desc(1, "/skip", FALSE)
    \/ \E t \in EvtTexts \cup {"/skip"} : evt_max(1, t, FALSE)
    \/ \E yes \in BOOLEAN : evt_confirm(1, yes, Actors)
    \/ evt_cancel(1)
    \/ info_start(1)
    \/ info_category(1, "x", FALSE)
    \/ info_title(1, "x", FALSE)
    \/ info_content(1, "x", FALSE)
    \/ \E yes \in BOOLEAN : info_confirm(1, yes)
    \/ info_cancel(1)

SpecOverlap == InitFlows /\ [][NextOverlap]_vars

\* the conversations of account a that are active
ActiveConvs(a) == {k \in {"reg", "evt", "info", "ai", "bc"} : conv[a][k] # END}

\* C17: in every reachable state an account has at most one active conversation:
\* the entry of a flow ends the flow that was active before it.
C17_OneConversationPerScope == \A a \in Actors : Cardinality(ActiveConvs(a)) <= 1

\* ------------------------------------------------------------------ one commit per flow

\* the state in which a conversation waits for its confirm button
ConfirmState(k) ==
    CASE k = "reg" -> "CONFIRM"
      [] k = "evt" -> "EVT_CONFIRM"
      [] k = "info" -> "INFO_CONFIRM"
      [] k = "ai" -> "WAIT_CONFIRM"
      [] OTHER -> "BC_CONFIRM"

\* what the confirm handler of a flow answers when it has committed
CommitTexts(k) ==
    CASE k = "reg" -> {"registered"}
      [] k = "evt" -> {"evt_created_pending", "evt_created_active"}
      [] k = "info" -> {"info_saved"}
      [] k = "ai" -> {"ai_event_created", "ai_info_created", "ai_event_archived"}
      [] OTHER -> {"bc_sent"}

C18_Step ==
    \A a \in Actors, k \in {"reg", "evt", "info", "ai", "bc"} :
        (By(a) /\ reply'.text \in CommitTexts(k)) =>
            /\ conv[a][k] = ConfirmState(k)
            /\ conv'[a][k] = END

Reprompted(a) ==
    /\ conv'[a] = conv[a]
    /\ user_data'[a] = user_data[a]

C19_Step ==
    \A a \in Actors, t \in EvtTexts :
        /\ (By(a) /\ ~IsIsoDate(t) /\ evt_date(a, t, FALSE)) => Reprompted(a)
        /\ (By(a) /\ ~IsInt(t) /\ evt_max(a, t, FALSE)) => Reprompted(a)

\* C19: in the event-creation flow a text that is not a date, typed in the date
\* state, and a text that is not an integer, typed in the max-participants state,
\* leave the flow in the same state and store no field.
C19_InvalidInputReprompts == [][C19_Step]_vars

\* ------------------------------------------------------------------ approved admin access

C20_Step ==
    \A rid \in RequestIds :
        (/\ reply'.text = "approve" /\ reply'.ref = rid
         /\ requests[rid].request_type = "admin_access") =>
            LET req == requests[rid]
            IN  /\ req.telegram_id \in DOMAIN users'
                /\ users'[req.telegram_id].role = ADMIN
                /\ req.requested_table # None =>
                      <<req.username, req.requested_table>> \in grants'

\* C20: when the approval of an admin_access request has run, the identity that
\* filed the request has role admin, with or without a handle, and a table the
\* request named is among the grants of the requester.
C20_ApprovedRequesterIsAdmin == [][C20_Step]_vars

\* ------------------------------------------------------------------ rejection

C21_Step ==
    \A rid \in RequestIds :
        (reply'.text = "reject" /\ reply'.ref = rid) =>
            /\ requests' = [requests EXCEPT ![rid].status = RQ_REJECTED,
                                            ![rid].reviewed_by = users[reply'.to].username]
            /\ UNCHANGED <<users, events, registrations, info, grants>>
            /\ applied' = applied
            /\ reply'.loop = NoFanout
            /\ \A m \in outbox' :
                  m = [to |-> requests[rid].telegram_id, kind |-> "reject", ref |-> rid]

\* C21: a rejection that wins changes the request's status and reviewer and nothing
\* else: no user, event, registration, info row or grant changes, no approval side
\* effect runs, no broadcast loop runs, and the only message sent is the decision
\* notice to the requester; so the event a rejected event_creation request names
\* keeps its status.
C21_RejectionChangesOnlyTheRequest == [][C21_Step]_vars

\* request 1, an event_creation request naming event 1, has just been rejected
\* and event 1 is still pending
C21_Witness ==
    /\ reply.text = "reject" /\ reply.ref = 1
    /\ Len(requests) >= 1
    /\ requests[1].request_type = "event_creation"
    /\ requests[1].status = RQ_REJECTED
    /\ EventOf(1) = 1
    /\ events[1].status = EV_PENDING
    /\ outbox = {[to |-> 2, kind |-> "reject", ref |-> 1]}

\* ------------------------------------------------------------------ super-admin creates an event

\* the step stored one new event, active, and no request, and sent nothing
CreatedActive ==
    LET e == Len(events) + 1
    IN  /\ Len(events') = e
        /\ \A i \in EventIds : events'[i] = events[i]
        /\ events'[e].status = EV_ACTIVE
        /\ requests' = requests
        /\ outbox' = {}

C22_StatedStep ==
    \A a \in Actors :
        (ConfirmsEvent(a) /\ users[a].role = SUPER_ADMIN) => CreatedActive

\* C22 as stated: when an account whose role is super-admin confirms the
\* event-creation flow, the new event is active when the step ends, no request is
\* created and no reviewer is notified.
C22_SuperAdminConfirmActivates == [][C22_StatedStep]_vars

C22_Step ==
    \A a \in Actors :
        (ConfirmsEvent(a) /\ user_data[a].db_user.role = SUPER_ADMIN) => CreatedActive

\* C22: when an account whose identity, as the role guard last cached it, has role
\* super-admin confirms the event-creation flow, the new event is active when the
\* step ends, no request is created and no reviewer is notified.
C22_CachedSuperAdminConfirmActivates == [][C22_Step]_vars

\* bob, whom the guard cached as a super-admin, has just confirmed: event 1 is
\* active and there is no request
C22_Witness ==
    /\ reply.to = 2 /\ reply.text = "evt_created_active" /\ reply.ref = 1
    /\ user_data[2].db_user.role = SUPER_ADMIN
    /\ events[1].status = EV_ACTIVE
    /\ requests = <<>>
    /\ outbox = {}
    /\ conv[2].evt = END

\* ------------------------------------------------------------------ /cancel

\* the update handled in this step is a /cancel of account a
SendsCancel(a) ==
    /\ By(a)
    /\ \/ cancel(a)
       \/ evt_cancel(a)
       \/ info_cancel(a)
       \/ text_cmd_cancel(a)
       \/ broadcast_cancel(a)

C23_Step ==
    \A a \in Actors, k \in {"reg", "evt", "info", "ai", "bc"} :
        (conv[a][k] # END /\ SendsCancel(a)) => conv'[a][k] = END

\* C23: a /cancel sent while a flow of the account is in a state that is not
\* terminal (an input-collecting state or the confirm state) ends that flow in
\* the same step.
C23_CancelEndsEveryActiveFlow == [][C23_Step]_vars

\* ------------------------------------------------------------------ steps before the confirm step

\* the update of account a moved a flow of a from an input-collecting state to
\* its next state
CollectsInput(a) ==
    /\ By(a)
    /\ \E k \in {"reg", "evt", "info", "ai", "bc"} :
          /\ conv[a][k] \notin {END, ConfirmState(k)}
          /\ conv'[a][k] \notin {END, conv[a][k]}

C24_Step ==
    \A a \in Actors :
        CollectsInput(a) =>
            /\ UNCHANGED <<users, events, registrations, info, requests, grants>>
            /\ outbox' = {}
            /\ reply'.qa = "none"

\* C24: an input handled in a state before the confirm state of an active flow
\* changes no record of the store, the users table included, sends nothing and
\* makes no call to the language model; it changes the flow's fields and state only.
C24_OnlyConfirmHasSideEffects == [][C24_Step]_vars

\* ------------------------------------------------------------------ privilege kept through a flow

C25_Step ==
    \A a \in Actors :
        /\ (/\ conv[a].evt # END
            /\ user_data[a].db_user.role = SUPER_ADMIN
            /\ conv'[a].evt # END) =>
                user_data'[a].db_user.role = SUPER_ADMIN
        /\ (/\ conv[a].evt = "EVT_CONFIRM"
            /\ user_data[a].db_user.role = SUPER_ADMIN
            /\ ConfirmsEvent(a)) =>
                /\ events'[Len(events')].status = EV_ACTIVE
                /\ requests' = requests

\* C25: an account that holds a super-admin identity in its event-creation flow
\* keeps it until the flow ends, whatever happens to its stored role and whatever
\* else it sends meanwhile, and the confirm step made with it activates the event
\* and creates no request.
C25_EntryPrivilegeKept == [][C25_Step]_vars

\* ------------------------------------------------------------------ capacity at commit

C30_Step ==
    \A a \in Actors :
        LET e == user_data[a].reg_event_id
        IN  (By(a) /\ conv[a].reg = "CONFIRM" /\ confirm(a, TRUE)) =>
                /\ reply' = [to |-> a, text |-> "registered", ref |-> e, qa |-> "none",
                             loop |-> NoFanout]
                /\ \E r \in registrations' : r.event_id = e /\ r.telegram_id = a
                /\ ~HoldsRegistration(a, e) =>
                      Cardinality({r \in registrations' : r.event_id = e})
                          = count_event_registrations(e) + 1

\* C30: the confirm step of a registration flow commits the registration whatever
\* the event's registration count has become since the flow was entered: the
\* account holds a registration afterwards, and a newcomer's row is added also
\* when the event is full.
C30_ConfirmCommitsWithoutCapacityCheck == [][C30_Step]_vars

\* an event with one place holds two registrations, the second one just committed
C30_Witness ==
    /\ reply.text = "registered"
    /\ reply.ref \in EventIds
    /\ events[reply.ref].max_participants = 1
    /\ count_event_registrations(reply.ref) = 2
    /\ HoldsRegistration(reply.to, reply.ref)

\* ------------------------------------------------------------------ text commands

\* what parse_admin_command may return: "unknown" when the call or the parsing of
\* its output failed, the three actions text_cmd_confirm carries out, and an
\* action it does not carry out
TextCmdResults ==
    ParseResults \cup
    {[action |-> "create_info", event_id |-> 0, max_participants |-> 0],
     [action |-> "archive_event", event_id |-> 1, max_participants |-> 0],
     [action |-> "archive_event", event_id |-> 0, max_participants |-> 0],
     [action |-> "update_event", event_id |-> 1, max_participants |-> 2]}

\* The super-admin types text commands, confirms, declines and cancels them, and
\* presses the activate button of the events they made.
NextTextCmd ==
    \/ text_cmd_start(1)
    \/ \E result \in TextCmdResults : text_cmd_parse(1, "x", result, FALSE)
    \/ \E yes \in BOOLEAN : text_cmd_confirm(1, yes)
    \/ text_cmd_cancel(1)
    \/ \E e \in EventIds : admin_callback(1, "event_activate", e, Actors)

SpecTextCmd == InitFlows /\ [][NextTextCmd]_vars

\* the actions text_cmd_confirm carries out
KnownActions == {"create_event", "create_info", "archive_event"}

C29_Step ==
    \A a \in Actors :
        (/\ By(a)
         /\ conv[a].ai = "WAIT_CONFIRM"
         /\ user_data[a].ai_cmd_result.action \notin KnownActions
         /\ text_cmd_confirm(a, TRUE)) =>
            /\ UNCHANGED <<users, events, registrations, info, requests, grants>>
            /\ outbox' = {}
            /\ reply' = [to |-> a, text |-> "ai_not_implemented", ref |-> 0,
                         qa |-> "none", loop |-> NoFanout]
            /\ conv'[a].ai = END

\* C29: confirming a text command whose parsed action is "unknown" or any action
\* other than create_event, create_info and archive_event changes no record of
\* the store, sends nothing, answers that the action is not implemented or not
\* recognised, and ends the flow.
C29_UnknownActionIsNoOp == [][C29_Step]_vars

\* the super-admin has just confirmed a command parsed as update_event of event 1:
\* the event is as it was and the flow is over
C29_Witness ==
    /\ reply.to = 1 /\ reply.text = "ai_not_implemented"
    /\ user_data[1].ai_cmd_result.action = "update_event"
    /\ conv[1].ai = END
    /\ events[1] = ParsedEvent(0, EV_ACTIVE, "sa")

\* ------------------------------------------------------------------ failed notifications

\* outcomes of the deliveries of one handler: all succeed, the one to the first
\* super-admin fails, all fail
FailSets == {Actors, {2, 3}, {}}

\* bob, an admin, files requests by the event-creation flow and by the activate
\* button, account 3 asks for admin rights; the super-admin makes bob a
\* super-admin and decides requests. Any delivery may fail.
NextNotify ==
    \/ \E ok \in FailSets : cmd_apply_admin(3, ok)
    \/ cmd_set_role(1, "bob", SUPER_ADMIN)
    \/ evt_start(2)
    \/ evt_title(2, "x", FALSE)
    \/ \E t \in DateTexts : evt_date(2, t, FALSE)
    \/ evt_time(2, "/skip", FALSE)
    \/ evt_place(2, "/skip", FALSE)
    \/ evt_desc(2, "/skip", FALSE)
    \/ evt_max(2, "/skip", FALSE)
    \/ \E ok \in FailSets : evt_confirm(2, TRUE, ok)
    \/ \E e \in EventIds, ok \in FailSets : admin_callback(2, "event_activate", e, ok)
    \/ \E act \in {"approve", "reject"}, rid \in 1..MaxRequests, ok \in FailSets :
          handle_request_decision(1, act, rid, FALSE, ok)

SpecNotify == InitCreate /\ [][NextNotify]_vars

\* the step filed a new pending request and told the account so with text, and
\* the notice reached every super-admin a delivery to whom succeeds
Filed(text, ok) ==
    LET r == Len(requests) + 1
    IN  /\ Len(requests') = r
        /\ requests'[r].status = RQ_PENDING
        /\ reply'.text = text
        /\ outbox' = {[to |-> t, kind |-> "review", ref |-> r] :
                         t \in get_super_admin_ids \cap ok}

\* the step decided request rid as act says, ran the side effect of an approval,
\* acknowledged the decision, and the notice reached the requester if the delivery
\* to them succeeds
Decided(act, rid, ok) ==
    LET req == requests[rid]
    IN  /\ requests'[rid].status = Outcome(act)
        /\ reply'.text = act
        /\ act = "approve" =>
              /\ applied'[rid] = applied[rid] + 1
              /\ users' = apply_users(req)
              /\ events' = apply_events(req)
        /\ outbox' = IF req.telegram_id \in ok
                     THEN {[to |-> req.telegram_id, kind |-> act, ref |-> rid]} ELSE {}

C27_Step ==
    \A a \in Actors, ok \in FailSets :
        By(a) =>
            /\ (Len(requests') > Len(requests) /\ cmd_apply_admin(a, ok)) =>
                  Filed("request_sent", ok)
            /\ (Len(requests') > Len(requests) /\ evt_confirm(a, TRUE, ok)) =>
                  /\ Filed("evt_created_pending", ok)
                  /\ Len(events') = Len(events) + 1
                  /\ conv'[a].evt = END
            /\ \A e \in EventIds :
                  (/\ Len(requests') > Len(requests)
                   /\ admin_callback(a, "event_activate", e, ok)) =>
                      Filed("activation_requested", ok)
            /\ \A act \in {"approve", "reject"}, rid \in RequestIds :
                  (/\ StillPending(rid)
                   /\ reply'.ref = rid
                   /\ require_role(a, {SUPER_ADMIN}) = "ok"
                   /\ handle_request_decision(a, act, rid, FALSE, ok)) =>
                      Decided(act, rid, ok)

\* C27: whichever deliveries fail, a handler that files a request leaves the
\* request stored, tells the account so and ends normally, and its notice reaches
\* every other reviewer; a decision stays stored with its side effect applied and
\* acknowledged when the notice to the requester fails.
C27_FailedNoticeUndoesNothing == [][C27_Step]_vars

\* two super-admins; the notice about request 1 failed for the first of them and
\* reached the second, and the request is stored
C27_Witness ==
    /\ get_super_admin_ids = {1, 2}
    /\ Len(requests) = 1 /\ requests[1].status = RQ_PENDING
    /\ reply.text \in {"request_sent", "evt_created_pending"}
    /\ outbox = {[to |-> 2, kind |-> "review", ref |-> 1]}

\* ------------------------------------------------------------------ requests without their event

\* the id of an event that was deleted from the table (db.delete_event)
GoneEvent == 9

\* The accounts have met the bot, bob is an admin. Two events exist, one pending
\* and one archived, and a pending request of bob for an event is in the table
\* whose payload names no event, or names an event that is gone.
InitOrphan ==
    /\ users = [a \in Actors |->
                  [telegram_id |-> a, username |-> TgUsername(a),
                   full_name |-> TgFullName(a), phone |-> None,
                   role |-> CASE a = 1 -> SUPER_ADMIN [] a = 2 -> ADMIN [] OTHER -> USER]]
    /\ events = <<ParsedEvent(0, EV_PENDING, "bob"), ParsedEvent(0, EV_ARCHIVED, "bob")>>
    /\ registrations = {}
    /\ info = <<>>
    /\ \E ty \in {"event_creation", "event_activation"}, e \in {0, GoneEvent} :
          requests = <<[username |-> "bob", telegram_id |-> 2, request_type |-> ty,
                        requested_table |-> None,
                        payload_json |-> [event_id |-> e, message |-> None],
                        status |-> RQ_PENDING, reviewed_by |-> None]>>
    /\ grants = {}
    /\ user_data = [a \in Actors |-> EmptyUserData]
    /\ conv = [a \in Actors |-> NoConv]
    /\ reg_buttons = [a \in Actors |-> {}]
    /\ reply = [to |-> 0, text |-> "none", ref |-> 0, qa |-> "none", loop |-> NoFanout]
    /\ outbox = {}
    /\ wins = <<>>
    /\ applied = <<0>>
    /\ notices = <<>>
    /\ wrote = [a \in Actors |-> NoWrites]
    /\ entered = [a \in Actors |-> {}]

\* The super-admin decides the request, a delivery may fail; bob and the
\* super-admin open the panel and press the buttons of the events.
NextOrphan ==
    \/ \E act \in {"approve", "reject"}, rid \in 1..MaxRequests, ok \in FailSets :
          handle_request_decision(1, act, rid, FALSE, ok)
    \/ cmd_pending(1)
    \/ \E a \in {1, 2} :
        \/ cmd_admin(a)
        \/ \E e \in EventIds :
            \/ admin_callback(a, "event_detail", e, Actors)
            \/ admin_callback(a, "event_activate", e, Actors)
            \/ admin_callback(a, "event_archive", e, Actors)

SpecOrphan == InitOrphan /\ [][NextOrphan]_vars

C28_Step ==
    \A rid \in RequestIds, ok \in FailSets :
        (/\ By(1) /\ reply'.ref = rid
         /\ StillPending(rid)
         /\ requests[rid].request_type \in {"event_creation", "event_activation"}
         /\ EventOf(rid) \notin EventIds
         /\ handle_request_decision(1, "approve", rid, FALSE, ok)) =>
            /\ events' = events
            /\ requests'[rid].status = RQ_APPROVED
            /\ reply'.text = "approve"
            /\ outbox' = IF requests[rid].telegram_id \in ok
                         THEN {[to |-> requests[rid].telegram_id, kind |-> "approve",
                                ref |-> rid]}
                         ELSE {}

\* C28: the approval of an event_creation or event_activation request whose payload
\* names no event, or an event that is not in the table, changes no event, ends
\* without an error with the request approved and the decision acknowledged to the
\* reviewer, and the requester is sent the notice.
C28_MissingEventIsNoOp == [][C28_Step]_vars

\* request 1 named the deleted event and has just been approved: the requester got
\* the notice and the two events are as they were
C28_Witness ==
    /\ reply.text = "approve" /\ reply.ref = 1
    /\ requests[1].status = RQ_APPROVED
    /\ EventOf(1) = GoneEvent
    /\ events = <<ParsedEvent(0, EV_PENDING, "bob"), ParsedEvent(0, EV_ARCHIVED, "bob")>>
    /\ outbox = {[to |-> 2, kind |-> "approve", ref |-> 1]}

\* ------------------------------------------------------------------ one account, two chats

\* bob registers in his private chat with the bot and, at the same time, in a
\* group chat the bot is a member of.
NextChats ==
    \/ cmd_events(2)
    \/ \E e \in EventIds : reg_start(2, e)
    \/ \E t \in RegTexts : ask_name(2, t, FALSE)
    \/ \E t \in RegTexts : ask_phone(2, t, FALSE)
    \/ \E t \in RegTexts : ask_level(2, t, FALSE)
    \/ \E yes \in BOOLEAN : confirm(2, yes)
    \/ cancel(2)
    \/ \E e \in EventIds : reg_start_group(2, e)
    \/ \E t \in RegTexts : ask_name_group(2, t, FALSE)
    \/ cancel_group(2)

SpecChats == InitFields /\ [][NextChats]_vars

\* the fields a registration flow collects
RegFields(ud) == <<ud.reg_event_id, ud.reg_name, ud.reg_phone, ud.reg_level>>

C26_Step ==
    \A a \in Actors :
        /\ (conv[a].reg # END /\ conv'[a].grp # conv[a].grp) =>
              RegFields(user_data'[a]) = RegFields(user_data[a])
        /\ (conv[a].grp # END /\ conv'[a].reg # conv[a].reg) =>
              RegFields(user_data'[a]) = RegFields(user_data[a])

\* C26: while an account has a registration flow under way in one chat, an input
\* handled by its flow in another chat leaves the fields collected by the first
\* flow as they are.
C26_FieldsIsolatedPerChat == [][C26_Step]_vars

\* ------------------------------------------------------------------ the guard's outcomes

\* Account 2 sends /start and tries every guarded entry point, before and after
\* it is registered, and cancels the flows it started; account 3, which never
\* sends /start, tries them too; the first super-admin sets the role of account 2.
NextEntry ==
    \/ cmd_start(2)
    \/ \E a \in {2, 3} : AdminEntry(a) \/ SuperEntry(a)
    \/ evt_cancel(2)
    \/ info_cancel(2)
    \/ text_cmd_cancel(2)
    \/ broadcast_cancel(2)
    \/ \E r \in UserRole : cmd_set_role(1, "bob", r)

SpecEntry == Init /\ [][NextEntry]_vars

\* the wrapper replied with text and returned: the store, the conversations and
\* the account's context are as they were
GuardReturns(a, text) ==
    /\ reply' = [to |-> a, text |-> text, ref |-> 0, qa |-> "none", loop |-> NoFanout]
    /\ UNCHANGED store
    /\ UNCHANGED conv
    /\ UNCHANGED user_data
    /\ outbox' = {}

\* the outcome of an update of account a at an entry point that requires a role of allowed
GuardOutcome(a, allowed) ==
    IF a \notin DOMAIN users THEN GuardReturns(a, "register_first")
    ELSE IF users[a].role \notin allowed THEN GuardReturns(a, "no_access")
    ELSE Proceeds /\ user_data'[a].db_user = users[a]

C31_Step ==
    \A a \in Actors :
        By(a) =>
            /\ GuardOutcome(a, {ADMIN, SUPER_ADMIN}) \/ ~AdminEntry(a)
            /\ GuardOutcome(a, {SUPER_ADMIN}) \/ ~SuperEntry(a)

\* C31: at a guarded entry point an account without an identity record is told to
\* register first, an account whose role is not among the required ones is told
\* it has no access, and in both cases the store, the conversations and the
\* identity cached in the account's context stay as they were; with a required
\* role the handler runs and the identity just read is the cached one.
C31_GuardOutcomes == [][C31_Step]_vars

\* C31 witness: an account that was super-admin when its identity was cached, and
\* is a user now, has just been refused, and the cached identity is the old one.
C31_Witness ==
    /\ reply.text = "no_access"
    /\ reply.to \in DOMAIN users
    /\ users[reply.to].role = USER
    /\ user_data[reply.to].db_user.role = SUPER_ADMIN

\* ------------------------------------------------------------------ order of the states, /skip

\* the states of each flow in the order of its prompts
StateOrder(k) ==
    CASE k = "reg" -> <<"ASK_NAME", "ASK_PHONE", "ASK_LEVEL", "CONFIRM">>
      [] k = "evt" -> <<"EVT_TITLE", "EVT_DATE", "EVT_TIME", "EVT_PLACE", "EVT_DESC",
                        "EVT_MAX", "EVT_CONFIRM">>
      [] k = "info" -> <<"INFO_CATEGORY", "INFO_TITLE", "INFO_CONTENT", "INFO_CONFIRM">>
      [] k = "ai" -> <<"WAIT_TEXT_CMD", "WAIT_CONFIRM">>
      [] OTHER -> <<"BC_TEXT", "BC_CONFIRM">>

\* the state that follows s in flow k; a flow that is not under way starts at the first
FollowingState(k, s) ==
    IF s = END THEN StateOrder(k)[1]
    ELSE LET i == CHOOSE j \in 1..Len(StateOrder(k)) : StateOrder(k)[j] = s
         IN  IF i < Len(StateOrder(k)) THEN StateOrder(k)[i + 1] ELSE END

\* the states whose field the spec marks optional
OptionalStates == {"ASK_PHONE", "ASK_LEVEL", "EVT_TIME", "EVT_PLACE", "EVT_DESC", "EVT_MAX"}

\* account a sends /skip and the conversation k handles it in state s
SkipHandled(a, k, s) ==
    /\ conv[a][k] = s
    /\ CASE s = "ASK_NAME" -> ask_name(a, "/skip", FALSE)
         [] s = "ASK_PHONE" -> ask_phone(a, "/skip", FALSE)
         [] s = "ASK_LEVEL" -> ask_level(a, "/skip", FALSE)
         [] s = "EVT_TITLE" -> evt_title(a, "/skip", FALSE)
         [] s = "EVT_DATE" -> evt_date(a, "/skip", FALSE)
         [] s = "EVT_TIME" -> evt_time(a, "/skip", FALSE)
         [] s = "EVT_PLACE" -> evt_place(a, "/skip", FALSE)
         [] s = "EVT_DESC" -> evt_desc(a, "/skip", FALSE)
         [] s = "EVT_MAX" -> evt_max(a, "/skip", FALSE)
         [] s = "INFO_CATEGORY" -> info_category(a, "/skip", FALSE)
         [] s = "INFO_TITLE" -> info_title(a, "/skip", FALSE)
         [] s = "INFO_CONTENT" -> info_content(a, "/skip", FALSE)
         [] s = "BC_TEXT" -> broadcast_text(a, "/skip", FALSE)
         [] OTHER -> FALSE

\* the field of state s holds "not provided"
NotProvided(ud, s) ==
    CASE s = "ASK_NAME" -> ud.reg_name = None
      [] s = "ASK_PHONE" -> ud.reg_phone = None
      [] s = "ASK_LEVEL" -> ud.reg_level = None
      [] s = "EVT_TIME" -> ud.evt_time = None
      [] s = "EVT_PLACE" -> ud.evt_place = None
      [] s = "EVT_DESC" -> ud.evt_desc = None
      [] s = "EVT_MAX" -> ud.evt_max = 0
      [] OTHER -> FALSE

\* a conversation moves to the state that follows, or ends; a commit comes from
\* the confirm state
C32_OrderStep ==
    \A a \in Actors, k \in {"reg", "evt", "info", "ai", "bc"} :
        /\ conv'[a][k] # conv[a][k] =>
              conv'[a][k] \in {FollowingState(k, conv[a][k]), END}
        /\ (By(a) /\ reply'.text \in CommitTexts(k)) => conv[a][k] = ConfirmState(k)

\* a /skip that a conversation handles is handled in the state of an optional
\* field, stores "not provided" there and moves to the state that follows
C32_SkipStep ==
    \A a \in Actors, k \in {"reg", "evt", "info", "bc"} :
        \A i \in 1..Len(StateOrder(k)) :
            (By(a) /\ SkipHandled(a, k, StateOrder(k)[i])) =>
                /\ StateOrder(k)[i] \in OptionalStates
                /\ NotProvided(user_data'[a], StateOrder(k)[i])
                /\ conv'[a][k] = FollowingState(k, StateOrder(k)[i])

\* C32: every flow goes through its states in their fixed order, none skipped, and
\* commits only from its confirm state; /skip is handled only in the states of the
\* optional fields, where it stores "not provided" and moves on, and in the states
\* of the required fields it stores nothing and moves nothing.
C32_LinearOrderAndSkip == [][C32_OrderStep /\ C32_SkipStep]_vars

\* the part of C32 about the order of the states alone
C32_OrderOnly == [][C32_OrderStep]_vars

\* ------------------------------------------------------------------ handles that change

\* Telegram lets an account change its handle and its name, and lets another
\* account take a handle that was released; the bot sees the profile of the
\* sender of each update.
HandleInputs == {"bob", "bobby", None}
NameInputs == {"Bob", "Cy"}

\* Accounts 2 and 3 send /start under the handle and the name they hold at the
\* time; account 2 asks for admin rights while its handle is "bob"; the first
\* super-admin sets roles and decides the request.
NextHandles ==
    \/ \E a \in {2, 3}, h \in HandleInputs, n \in NameInputs : cmd_start_as(a, h, n)
    \/ cmd_apply_admin(2, Actors)
    \/ \E u \in {"bob", "bobby"}, r \in UserRole : cmd_set_role(1, u, r)
    \/ \E act \in {"approve", "reject"}, rid \in 1..MaxRequests :
          handle_request_decision(1, act, rid, FALSE, Actors)

SpecHandles == Init /\ [][NextHandles]_vars

C33_Step ==
    \A a \in DOMAIN users :
        \A h \in HandleInputs, n \in NameInputs :
            (By(a) /\ cmd_start_as(a, h, n)) =>
                /\ users'[a].telegram_id = users[a].telegram_id
                /\ users'[a].role = users[a].role
                /\ users'[a].phone = users[a].phone
                /\ \A t \in DOMAIN users' : t # a => t \in DOMAIN users /\ users'[t] = users[t]
                /\ IF upsert_raises(a, h) THEN users' = users
                   ELSE /\ users'[a].full_name = n
                        /\ users'[a].username = IF h # None THEN h ELSE users[a].username

InitGrants ==
    /\ users = [a \in {1, 2} |->
                  [telegram_id |-> a, username |-> TgUsername(a),
                   full_name |-> TgFullName(a), phone |-> None,
                   role |-> IF a = 1 THEN SUPER_ADMIN ELSE USER]]
    /\ events = <<>>
    /\ registrations = {}
    /\ info = <<>>
    /\ \E table_name \in {"events", "info"} :
          requests = <<[username |-> "bob", telegram_id |-> 2,
                        request_type |-> "admin_access", requested_table |-> "events",
                        payload_json |-> NoPayload, status |-> RQ_PENDING,
                        reviewed_by |-> None],
                       [username |-> "bob", telegram_id |-> 2,
                        request_type |-> "admin_access", requested_table |-> table_name,
                        payload_json |-> NoPayload, status |-> RQ_PENDING,
                        reviewed_by |-> None]>>
    /\ grants = {}
    /\ user_data = [a \in Actors |-> EmptyUserData]
    /\ conv = [a \in Actors |-> NoConv]
    /\ reg_buttons = [a \in Actors |-> {}]
    /\ reply = [to |-> 0, text |-> "none", ref |-> 0, qa |-> "none", loop |-> NoFanout]
    /\ outbox = {}
    /\ wins = <<>>
    /\ applied = <<0, 0>>
    /\ notices = <<>>
    /\ wrote = [a \in Actors |-> NoWrites]
    /\ entered = [a \in Actors |-> {}]

\* admin_table_access.username REFERENCES users(username): the INSERT of
\* grant_table_access raises when no identity holds the handle of the request
GrantRaises(rid) ==
    /\ rid \in RequestIds
    /\ requests[rid].requested_table # None
    /\ ~\E t \in DOMAIN users : users[t].username = requests[rid].username

\* bob and account 3 send /start under the handles they hold at the time; the
\* super-admin decides the requests and sets roles.
NextGrants ==
    \/ \E h \in HandleInputs : cmd_start_as(2, h, "Bob")
    \/ \E h \in HandleInputs : cmd_start_as(3, h, "Cy")
    \/ \E act \in {"approve", "reject"}, rid \in RequestIds :
          handle_request_decision(1, act, rid, GrantRaises(rid), Actors)
    \/ \E r \in {USER, ADMIN} : cmd_set_role(1, "bob", r)

SpecGrants == InitGrants /\ [][NextGrants]_vars

\* the tables granted to a handle
GrantedTo(tbl, username) == {g[2] : g \in {h \in tbl : h[1] = username}}

\* the approval of request rid that grants a pair the table holds
GrantsAgain(rid) ==
    /\ StillPending(rid)
    /\ requests[rid].requested_table # None
    /\ <<requests[rid].username, requests[rid].requested_table>> \in grants
    /\ handle_request_decision(1, "approve", rid, GrantRaises(rid), Actors)

C34_Step ==
    /\ \A t \in DOMAIN users :
          GrantedTo(grants, users[t].username) \subseteq GrantedTo(grants', users'[t].username)
    /\ (\A t \in DOMAIN users : users'[t].username = users[t].username) =>
          grants \subseteq grants'
    /\ \A rid \in RequestIds :
          (By(1) /\ reply'.ref = rid /\ GrantsAgain(rid)) =>
              /\ grants' = grants
              /\ reply'.text = "approve"
              /\ applied'[rid] = applied[rid] + 1

Dispatched(b) ==
    /\ ~handler_in_flight
    /\ \/ cmd_start(b)
       \/ cmd_events(b)
       \/ cmd_admin(b)
       \/ cmd_apply_admin(b, Actors)

\* Accounts 2 and 3 write free text, which the LLM answers, and send commands.
NextAwait ==
    \/ \E a \in {2, 3} : handle_message_awaits(a, "x")
    \/ \E a \in {2, 3}, marker \in BOOLEAN : handle_message_resumes(a, marker)
    \/ \E b \in {2, 3} : Dispatched(b)

SpecAwait == InitFlows /\ [][NextAwait]_vars

\* C35: while the handler of an update of one account is suspended at a call of
\* the store, the LLM or the spreadsheet, an update of another account can be
\* handled: its handlers can run to their end.
C35_SuspendedHandlerBlocksNoOne ==
    \A a \in {2, 3}, b \in {2, 3} :
        (a # b /\ handler_in_flight /\ reply.to = a) =>
            ENABLED Dispatched(b)

\* ------------------------------------------------------------------ whom an approval promotes

\* the step is the approval of the admin_access request rid by a super-admin
ApprovesAdminAccess(rid) ==
    /\ StillPending(rid)
    /\ requests[rid].request_type = "admin_access"
    /\ reply'.text = "approve"
    /\ reply'.ref = rid
    /\ requests'[rid].status = RQ_APPROVED

C36_Step ==
    \A rid \in RequestIds :
        ApprovesAdminAccess(rid) =>
            \A t \in DOMAIN users :
                t # requests[rid].telegram_id => users'[t].role = users[t].role

\* C36: the approval of an admin_access request changes the role of no identity
\* but the one whose platform identifier the request records, also when handles
\* were released and taken by other accounts since the request was filed.
C36_ApprovalPromotesOnlyRequester == [][C36_Step]_vars

\* ------------------------------------------------------------------ approval of a stale request

C37_Step ==
    \A rid \in RequestIds :
        ApprovesAdminAccess(rid) =>
            LET requester == requests[rid].telegram_id
            IN  (requester \in DOMAIN users /\ users[requester].role = SUPER_ADMIN) =>
                    users'[requester].role = SUPER_ADMIN

\* C37: the approval of an admin_access request lowers no role: a requester who
\* is super-admin when the request is approved is super-admin after it.
C37_ApprovalNeverLowersRole == [][C37_Step]_vars

\* ------------------------------------------------------------------ the last super-admin

\* C38: from the bootstrap on there is at least one super-admin in every state:
\* neither /set_role nor an approval takes the role from the last one.
C38_SomeSuperAdminAlways == get_super_admin_ids # {}

\* ------------------------------------------------------------------ the two ways to create an event

\* bob, an admin, creates events by the manual flow and by text command; the
\* super-admin decides the requests.
NextByText ==
    \/ cmd_admin(2)
    \/ evt_start(2)
    \/ evt_title(2, "x", FALSE)
    \/ \E t \in DateTexts : evt_date(2, t, FALSE)
    \/ evt_time(2, "/skip", FALSE)
    \/ evt_place(2, "/skip", FALSE)
    \/ evt_desc(2, "/skip", FALSE)
    \/ evt_max(2, "/skip", FALSE)
    \/ \E yes \in BOOLEAN : evt_confirm(2, yes, Actors)
    \/ evt_cancel(2)
    \/ text_cmd_start(2)
    \/ \E result \in ParseResults : text_cmd_parse(2, "x", result, FALSE)
    \/ \E yes \in BOOLEAN : text_cmd_confirm(2, yes)
    \/ text_cmd_cancel(2)
    \/ \E act \in {"approve", "reject"}, rid \in 1..MaxRequests :
          handle_request_decision(1, act, rid, FALSE, Actors)

SpecByText == InitCreate /\ [][NextByText]_vars

\* a request whose payload names event e
RequestsFor(tbl, e) == {rid \in 1..Len(tbl) : tbl[rid].payload_json.event_id = e}

C39_Step ==
    \A a \in DOMAIN users :
        (By(a) /\ users[a].role = ADMIN /\ Len(events') = Len(events) + 1) =>
            RequestsFor(requests', Len(events')) # {}

\* C39: when an admin who is not a super-admin has created an event, by the
\* manual flow or by a confirmed create_event text command, a request exists whose
\* payload names the event, so the reviewers are asked to decide on it.
C39_AdminEventHasRequest == [][C39_Step]_vars

\* ------------------------------------------------------------------ flows one after the other

\* The three accounts have met the bot; two events the super-admin created by
\* text command are active, the first unlimited, the second with one place.
InitSeq ==
    /\ users = [a \in Actors |->
                  [telegram_id |-> a, username |-> TgUsername(a),
                   full_name |-> TgFullName(a), phone |-> None,
                   role |-> IF a = 1 THEN SUPER_ADMIN ELSE USER]]
    /\ events = <<ParsedEvent(0, EV_ACTIVE, "sa"), ParsedEvent(1, EV_ACTIVE, "sa")>>
    /\ registrations = {}
    /\ info = <<>>
    /\ requests = <<>>
    /\ grants = {}
    /\ user_data = [a \in Actors |-> EmptyUserData]
    /\ conv = [a \in Actors |-> NoConv]
    /\ reg_buttons = [a \in Actors |-> {}]
    /\ reply = [to |-> 0, text |-> "none", ref |-> 0, qa |-> "none", loop |-> NoFanout]
    /\ outbox = {}
    /\ wins = <<>>
    /\ applied = <<>>
    /\ notices = <<>>
    /\ wrote = [a \in Actors |-> NoWrites]
    /\ entered = [a \in Actors |-> {}]

\* The flows for one event follow one another: bob's flows in his private chat
\* are entered for event 1, and nobody else enters a flow for event 1; the flows
\* for event 2 are bob's in the group chat and account 3's in its private chat,
\* and each of the two is entered only when the other has ended.
NextSeq ==
    \/ \E a \in {2, 3} : cmd_events(a)
    \/ reg_start(2, 1)
    \/ conv[3].reg = END /\ reg_start_group(2, 2)
    \/ conv[2].grp = END /\ reg_start(3, 2)
    \/ \E a \in {2, 3} :
        \/ ask_name(a, "/skip", FALSE)
        \/ ask_phone(a, "/skip", FALSE)
        \/ ask_level(a, "/skip", FALSE)
        \/ \E yes \in BOOLEAN : confirm(a, yes)
        \/ cancel(a)
    \/ ask_name_group(2, "/skip", FALSE)
    \/ cancel_group(2)

SpecSeq == InitSeq /\ [][NextSeq]_vars

\* C40: an event with max_participants = N > 0 whose registration flows follow
\* one another, each entered after the one before it has committed or ended, has
\* at most N registrations in every state.
C40_SequentialFlowsKeepCapacity ==
    \A e \in EventIds :
        events[e].max_participants > 0 =>
            count_event_registrations(e) <= events[e].max_participants

====
